---------------------------- MODULE Spec2Model ----------------------------
(***************************************************************************)
(* Model of the multi-agent todo core: the message envelopes, the          *)
(* orchestrator's prefix routing, the agents' action registries and        *)
(* lifecycle, and the in-memory task store behind the storage agent.       *)
(*                                                                         *)
(* Python values are encoded as follows.                                   *)
(*   str        a sequence of tokens; a token is a TLA+ string standing    *)
(*              for one character or for one literal fragment of a message *)
(*              template; the empty str is << >>.                          *)
(*   None       the record PyNone.                                         *)
(*   str|None   PyNone or Str(s), a record wrapping the token sequence.    *)
(*   dict       a record; a key that is absent holds PyNone (payload.get). *)
(*   exception  a record [cls, text]: its class and str(e).                *)
(***************************************************************************)
EXTENDS Integers, Sequences, FiniteSets, TLC

----------------------------------------------------------------------------
(* Bounds of the model. *)

\* Number of task ids that can be in use (task store capacity).
MaxTasks == 2

\* Number of entries the agent table of a hand-assembled orchestrator holds.
MaxAgents == 2

\* Number of request chains in flight at the same time.
MaxChains == 2

----------------------------------------------------------------------------
(* Python values. *)

PyNone == [t |-> "none"]

Str(s) == [t |-> "str", v |-> s]

IsNone(x) == x.t = "none"

\* Python truthiness of a str|None value: `not x` is TRUE for None and "".
Truthy(x) == x.t = "str" /\ x.v # << >>

\* a.startswith(p)
StartsWith(a, p) ==
    /\ Len(p) <= Len(a)
    /\ \A i \in 1..Len(p) : a[i] = p[i]

\* s.strip(): drop the leading and trailing whitespace tokens.
RECURSIVE LStrip(_)
LStrip(s) == IF s # << >> /\ Head(s) = " " THEN LStrip(Tail(s)) ELSE s

RECURSIVE RStrip(_)
RStrip(s) ==
    IF s # << >> /\ s[Len(s)] = " " THEN RStrip(SubSeq(s, 1, Len(s) - 1)) ELSE s

Strip(s) == RStrip(LStrip(s))

\* `needle in haystack` for strs: needle is a contiguous part of haystack.
Mentions(haystack, needle) ==
    \E i \in 0..(Len(haystack) - Len(needle)) :
        \A j \in 1..Len(needle) : haystack[i + j] = needle[j]

\* An exception object: its class and str(e).
Exc(cls, text) == [t |-> "exc", cls |-> cls, text |-> text]

\* The outcome of a call that raised instead of returning.
Raised(e) == [raised |-> TRUE, exc |-> e]


----------------------------------------------------------------------------
(* Envelopes: src/models/messages.py *)

\* uuid4(): the n-th identifier drawn; distinct draws are distinct, and no
\* generated identifier equals one a caller of the model supplies.
uuid4(n) == <<"uuid-", ToString(n)>>

\* The pydantic failure raised by a model constructor.
PydanticError(text) == Exc("pydantic.ValidationError", text)

\* A variant whose validator checks the three fields and keeps them as given.
AgentMessage_Untrimmed(request_id, sender, recipient, action, payload, correlation_id) ==
    IF sender = << >> \/ recipient = << >> \/ action = << >>
    THEN Raised(PydanticError(<<"String should have at least 1 character">>))
    ELSE IF Strip(sender) = << >> \/ Strip(recipient) = << >> \/ Strip(action) = << >>
    THEN Raised(PydanticError(<<"Field cannot be empty or whitespace-only">>))
    ELSE [raised |-> FALSE,
          request_id |-> request_id,
          sender |-> sender,
          recipient |-> recipient,
          action |-> action,
          payload |-> payload,
          correlation_id |-> correlation_id]

\* AgentMessage(...): sender, recipient and action need min_length 1 and are
\* stripped by validate_non_empty_string; request_id and correlation_id are
\* plain str fields without a length constraint.
AgentMessage(request_id, sender, recipient, action, payload, correlation_id) ==
    IF sender = << >> \/ recipient = << >> \/ action = << >>
    THEN Raised(PydanticError(<<"String should have at least 1 character">>))
    ELSE IF Strip(sender) = << >> \/ Strip(recipient) = << >> \/ Strip(action) = << >>
    THEN Raised(PydanticError(<<"Field cannot be empty or whitespace-only">>))
    ELSE [raised |-> FALSE,
          request_id |-> request_id,
          sender |-> Strip(sender),
          recipient |-> Strip(recipient),
          action |-> Strip(action),
          payload |-> payload,
          correlation_id |-> correlation_id]

\* AgentResponse(...): request_id and sender need min_length 1, status is one
\* of the two literals, and validate_result_xor_error runs after the fields.
AgentResponse(request_id, sender, status, result, error) ==
    IF request_id = << >> \/ sender = << >>
    THEN Raised(PydanticError(<<"String should have at least 1 character">>))
    ELSE IF status \notin {"success", "error"}
    THEN Raised(PydanticError(<<"Input should be 'success' or 'error'">>))
    ELSE IF status = "success" /\ ~IsNone(error)
    THEN Raised(PydanticError(<<"Success response should not have an error">>))
    ELSE IF status = "error" /\ IsNone(error)
    THEN Raised(PydanticError(<<"Error response must have an error message">>))
    ELSE IF status = "error" /\ ~IsNone(result)
    THEN Raised(PydanticError(<<"Error response should not have a result">>))
    ELSE [raised |-> FALSE, request_id |-> request_id, sender |-> sender,
          status |-> status, result |-> result, error |-> error]

\* A variant that lets the response draw a request id of its own.
create_success_response_OwnId(name, request_id, result) ==
    AgentResponse(uuid4(0), name, "success", result, PyNone)

\* BaseAgent._create_success_response
create_success_response(name, request_id, result) ==
    AgentResponse(request_id, name, "success", result, PyNone)

\* BaseAgent._create_error_response
create_error_response(name, request_id, error) ==
    AgentResponse(request_id, name, "error", PyNone, Str(error))

----------------------------------------------------------------------------
(* Tasks: src/models/tasks.py.  A Task carries id, title, description,     *)
(* status and completed_at; priority, due date, tags and recurrence keep   *)
(* their defaults on every path of the agents and are left out, as are the *)
(* created_at / updated_at stamps.                                         *)

PENDING == <<"pending">>
COMPLETED == <<"completed">>

\* datetime.now(UTC), as the value stored in completed_at.
NowStamp == Str(<<"now">>)

\* Task(**task_data): validate_title_not_empty strips the title and rejects
\* an empty one, validate_description strips and maps "" to None, status is
\* one of the two literals.
Task(d) ==
    IF d.title = << >> \/ Strip(d.title) = << >>
    THEN Raised(PydanticError(<<"Title cannot be empty or whitespace-only">>))
    ELSE IF d.status \notin {PENDING, COMPLETED}
    THEN Raised(PydanticError(<<"Input should be 'pending' or 'completed'">>))
    ELSE [raised |-> FALSE,
          t |-> "task",
          id |-> d.id,
          title |-> Strip(d.title),
          description |->
              IF IsNone(d.description) \/ Strip(d.description.v) = << >>
              THEN PyNone
              ELSE Str(Strip(d.description.v)),
          status |-> d.status,
          completed_at |-> d.completed_at]

\* Task(title=..., description=...): a new pending task with a generated id.
NewTask(id, title, description) ==
    Task([t |-> "dict", id |-> id, title |-> title, description |-> description,
          status |-> PENDING, completed_at |-> PyNone])

\* task.model_dump()
model_dump(task) ==
    [t |-> "dict", id |-> task.id, title |-> task.title,
     description |-> task.description, status |-> task.status,
     completed_at |-> task.completed_at]

\* A variant that sets the status and leaves completed_at as it was.
Task_mark_complete_Unstamped(task) == [task EXCEPT !.status = COMPLETED]

\* Task.mark_complete
Task_mark_complete(task) ==
    [task EXCEPT !.status = COMPLETED, !.completed_at = NowStamp]

\* Task.mark_pending
Task_mark_pending(task) ==
    [task EXCEPT !.status = PENDING, !.completed_at = PyNone]

\* Task.update(title=..., description=...): model_copy does not validate.
Task_update(task, title, description) ==
    [task EXCEPT !.title = IF IsNone(title) THEN @ ELSE title.v,
                 !.description = IF IsNone(description) THEN @ ELSE description]

----------------------------------------------------------------------------
(* The store: src/backends/memory.py.  _tasks is a dict keyed by id; a     *)
(* Python dict keeps insertion order, so it is a sequence of tasks with    *)
(* distinct ids.  A backend call returns [raised, value, tasks].           *)

HasId(tasks, id) == \E i \in 1..Len(tasks) : tasks[i].id = id

IndexOf(tasks, id) == CHOOSE i \in 1..Len(tasks) : tasks[i].id = id

\* A variant that appends the task whether or not its id is a key.
DictSet_Appending(tasks, task) == Append(tasks, task)

\* self._tasks[task.id] = task
DictSet(tasks, task) ==
    IF HasId(tasks, task.id)
    THEN [tasks EXCEPT ![IndexOf(tasks, task.id)] = task]
    ELSE Append(tasks, task)

\* del self._tasks[task_id]
DictDel(tasks, id) ==
    LET k == IndexOf(tasks, id)
    IN  SubSeq(tasks, 1, k - 1) \o SubSeq(tasks, k + 1, Len(tasks))

\* [t for t in tasks if t.status == status]
RECURSIVE FilterStatus(_, _)
FilterStatus(tasks, status) ==
    IF tasks = << >> THEN << >>
    ELSE IF Str(Head(tasks).status) = status
    THEN <<Head(tasks)>> \o FilterStatus(Tail(tasks), status)
    ELSE FilterStatus(Tail(tasks), status)

Returned(value, tasks) == [raised |-> FALSE, value |-> value, tasks |-> tasks]

Failed(e, tasks) == [raised |-> TRUE, exc |-> e, tasks |-> tasks]

\* StorageError(message, operation=op): str(e) ends with the operation.
StorageError(text, operation) ==
    Exc("StorageError", text \o <<" (operation: ", operation, ")">>)

\* NotFoundError(message, resource_type="task", resource_id=id)
NotFoundError(text, id) ==
    Exc("NotFoundError", text \o <<" (type=task, id=">> \o id \o <<")">>)

\* InMemoryBackend.save
InMemoryBackend_save(tasks, task) == Returned(task, DictSet(tasks, task))

\* InMemoryBackend.get
InMemoryBackend_get(tasks, task_id) ==
    Returned(IF HasId(tasks, task_id) THEN tasks[IndexOf(tasks, task_id)] ELSE PyNone,
             tasks)

\* InMemoryBackend.get_all
InMemoryBackend_get_all(tasks) == Returned(tasks, tasks)

\* A variant of update that stores the task whether or not its id is there.
InMemoryBackend_update_Upsert(tasks, task) == Returned(task, DictSet(tasks, task))

\* InMemoryBackend.update
InMemoryBackend_update(tasks, task) ==
    IF ~HasId(tasks, task.id)
    THEN Failed(NotFoundError(<<"Task not found: ">> \o task.id, task.id), tasks)
    ELSE Returned(task, DictSet(tasks, task))

\* InMemoryBackend.delete
InMemoryBackend_delete(tasks, task_id) ==
    IF HasId(tasks, task_id)
    THEN Returned(TRUE, DictDel(tasks, task_id))
    ELSE Returned(FALSE, tasks)

\* InMemoryBackend.query
InMemoryBackend_query(tasks, status) ==
    Returned(IF IsNone(status) THEN tasks ELSE FilterStatus(tasks, status), tasks)

\* InMemoryBackend.count
InMemoryBackend_count(tasks) == Len(tasks)

\* InMemoryBackend.clear
InMemoryBackend_clear(tasks) == Returned(Len(tasks), << >>)

\* A call of the storage backend protocol (src/backends/base.py): the call
\* raises the fault `fault` when the backend fails (every operation of the
\* protocol may raise StorageError), and otherwise is the in-memory operation.
BackendCall(op, arg, tasks, fault) ==
    IF ~IsNone(fault) THEN Failed(fault, tasks)
    ELSE CASE op = "save" -> InMemoryBackend_save(tasks, arg)
           [] op = "get" -> InMemoryBackend_get(tasks, arg)
           [] op = "get_all" -> InMemoryBackend_get_all(tasks)
           [] op = "update" -> InMemoryBackend_update(tasks, arg)
           [] op = "delete" -> InMemoryBackend_delete(tasks, arg)
           [] op = "query" -> InMemoryBackend_query(tasks, arg)
           [] op = "clear" -> InMemoryBackend_clear(tasks)

----------------------------------------------------------------------------
(* Action names, spelled character by character so that a prefix test is   *)
(* the literal str.startswith of the code.                                 *)

task_add == <<"t", "a", "s", "k", "_", "a", "d", "d">>

task_list == <<"t", "a", "s", "k", "_", "l", "i", "s", "t">>

task_complete == <<"t", "a", "s", "k", "_", "c", "o", "m", "p", "l", "e", "t", "e">>

task_delete == <<"t", "a", "s", "k", "_", "d", "e", "l", "e", "t", "e">>

task_get == <<"t", "a", "s", "k", "_", "g", "e", "t">>

task_update == <<"t", "a", "s", "k", "_", "u", "p", "d", "a", "t", "e">>

storage_save == <<"s", "t", "o", "r", "a", "g", "e", "_", "s", "a", "v", "e">>

storage_get == <<"s", "t", "o", "r", "a", "g", "e", "_", "g", "e", "t">>

storage_get_all == <<"s", "t", "o", "r", "a", "g", "e", "_", "g", "e", "t", "_", "a", "l", "l">>

storage_update == <<"s", "t", "o", "r", "a", "g", "e", "_", "u", "p", "d", "a", "t", "e">>

storage_delete == <<"s", "t", "o", "r", "a", "g", "e", "_", "d", "e", "l", "e", "t", "e">>

storage_query == <<"s", "t", "o", "r", "a", "g", "e", "_", "q", "u", "e", "r", "y">>

storage_clear == <<"s", "t", "o", "r", "a", "g", "e", "_", "c", "l", "e", "a", "r">>

ui_display_menu == <<"u", "i", "_", "d", "i", "s", "p", "l", "a", "y", "_", "m", "e", "n", "u">>

ui_get_choice == <<"u", "i", "_", "g", "e", "t", "_", "c", "h", "o", "i", "c", "e">>

ui_get_task_details == <<"u", "i", "_", "g", "e", "t", "_", "t", "a", "s", "k", "_", "d", "e", "t", "a", "i", "l", "s">>

ui_get_update_details == <<"u", "i", "_", "g", "e", "t", "_", "u", "p", "d", "a", "t", "e", "_", "d", "e", "t", "a", "i", "l", "s">>

ui_display_tasks == <<"u", "i", "_", "d", "i", "s", "p", "l", "a", "y", "_", "t", "a", "s", "k", "s">>

ui_display_task == <<"u", "i", "_", "d", "i", "s", "p", "l", "a", "y", "_", "t", "a", "s", "k">>

ui_display_message == <<"u", "i", "_", "d", "i", "s", "p", "l", "a", "y", "_", "m", "e", "s", "s", "a", "g", "e">>

ui_confirm == <<"u", "i", "_", "c", "o", "n", "f", "i", "r", "m">>

ui_select_task == <<"u", "i", "_", "s", "e", "l", "e", "c", "t", "_", "t", "a", "s", "k">>

ui_welcome == <<"u", "i", "_", "w", "e", "l", "c", "o", "m", "e">>

ui_goodbye == <<"u", "i", "_", "g", "o", "o", "d", "b", "y", "e">>

system_status == <<"s", "y", "s", "t", "e", "m", "_", "s", "t", "a", "t", "u", "s">>

system_agents == <<"s", "y", "s", "t", "e", "m", "_", "a", "g", "e", "n", "t", "s">>

system_shutdown == <<"s", "y", "s", "t", "e", "m", "_", "s", "h", "u", "t", "d", "o", "w", "n">>

\* Action names that no agent registers, used as inputs.

task_unknown == <<"t", "a", "s", "k", "_", "u", "n", "k", "n", "o", "w", "n">>

storage_unknown == <<"s", "t", "o", "r", "a", "g", "e", "_", "u", "n", "k", "n", "o", "w", "n">>

ui_unknown == <<"u", "i", "_", "u", "n", "k", "n", "o", "w", "n">>

system_unknown == <<"s", "y", "s", "t", "e", "m", "_", "u", "n", "k", "n", "o", "w", "n">>

bogus_op == <<"b", "o", "g", "u", "s", "_", "o", "p">>

my_task_add == <<"m", "y", "_", "t", "a", "s", "k", "_", "a", "d", "d">>

bare_task == <<"t", "a", "s", "k">>

capital_Task_add == <<"T", "a", "s", "k", "_", "a", "d", "d">>

unknown_action == <<"u", "n", "k", "n", "o", "w", "n", "_", "a", "c", "t", "i", "o", "n">>

----------------------------------------------------------------------------
(* Payloads.  A payload is a dict; the record holds PyNone under a key the *)
(* dict does not have, which is what payload.get(key) returns.             *)

NoPayload ==
    [title |-> PyNone, description |-> PyNone, task_id |-> PyNone,
     status |-> PyNone, task |-> PyNone, tasks |-> PyNone,
     message |-> PyNone, type |-> PyNone]

Dict(fields) == [t |-> "dict"] @@ fields

\* What an agent's handler leaves behind: its outcome (a response, or the
\* exception it raised), the store, and the number of backend calls made.
Done(out, tasks, calls) == [out |-> out, tasks |-> tasks, calls |-> calls]

----------------------------------------------------------------------------
(* The action registry: BaseAgent._actions, a dict from action name to     *)
(* handler, held as its entries in insertion order.  A handler is named by *)
(* the method it is.                                                       *)

\* `action in self._actions`
HasAction(registry, action) ==
    \E i \in 1..Len(registry) : registry[i].action = action

\* self._actions.get(action), for an action the registry has
HandlerOf(registry, action) ==
    registry[CHOOSE i \in 1..Len(registry) : registry[i].action = action].handler

\* A variant that adds an entry whether or not the action has one.
register_action_Appending(registry, action, handler) ==
    Append(registry, [action |-> action, handler |-> handler])

\* BaseAgent.register_action: self._actions[action] = handler
register_action(registry, action, handler) ==
    IF HasAction(registry, action)
    THEN [registry EXCEPT ![CHOOSE i \in 1..Len(registry) : registry[i].action = action]
                              = [action |-> action, handler |-> handler]]
    ELSE Append(registry, [action |-> action, handler |-> handler])

\* BaseAgent.supported_actions: list(self._actions.keys())
supported_actions(registry) == [i \in 1..Len(registry) |-> registry[i].action]

\* The register_action calls of a constructor, made in order.
RECURSIVE RegisterAll(_, _)
RegisterAll(registry, calls) ==
    IF calls = << >> THEN registry
    ELSE RegisterAll(register_action(registry, Head(calls)[1], Head(calls)[2]),
                     Tail(calls))

----------------------------------------------------------------------------
(* The storage agent: src/agents/storage_handler.py *)

\* The action registry filled by StorageHandlerAgent.__init__.
StorageHandlerActions ==
    RegisterAll(<< >>,
     << <<storage_save, "_handle_save">>,
       <<storage_get, "_handle_get">>,
       <<storage_get_all, "_handle_get_all">>,
       <<storage_update, "_handle_update">>,
       <<storage_delete, "_handle_delete">>,
       <<storage_query, "_handle_query">>,
       <<storage_clear, "_handle_clear">> >>)

\* The task sent under payload["task"]: a dict is validated into a Task, a
\* Task is taken as it is, anything else is no task (PyNone here).
TaskOfPayload(task_data) ==
    IF task_data.t = "dict" THEN Task(task_data)
    ELSE IF task_data.t = "task" THEN task_data
    ELSE PyNone

\* StorageHandlerAgent._handle_save
StorageHandler_handle_save(name, message, tasks, fault) ==
    LET Stored(r) ==
            IF r.raised THEN Done(Raised(r.exc), r.tasks, 1)
            ELSE Done(create_success_response(name, message.request_id,
                          Dict([task |-> model_dump(r.value)])), r.tasks, 1)
        With(task_data, task) ==
            IF IsNone(task_data)
            THEN Done(create_error_response(name, message.request_id,
                                            <<"Missing 'task' in payload">>), tasks, 0)
            ELSE IF task = PyNone
            THEN Done(create_error_response(name, message.request_id,
                                            <<"Invalid task data type">>), tasks, 0)
            ELSE IF task.raised THEN Done(Raised(task.exc), tasks, 0)
            ELSE Stored(BackendCall("save", task, tasks, fault))
    IN  With(message.payload.task, TaskOfPayload(message.payload.task))

\* StorageHandlerAgent._handle_get
StorageHandler_handle_get(name, message, tasks, fault) ==
    LET Got(task_id, r) ==
            IF r.raised THEN Done(Raised(r.exc), r.tasks, 1)
            ELSE IF r.value = PyNone
            THEN Done(create_error_response(name, message.request_id,
                          <<"Task not found: ">> \o task_id.v), r.tasks, 1)
            ELSE Done(create_success_response(name, message.request_id,
                          Dict([task |-> model_dump(r.value)])), r.tasks, 1)
        With(task_id) ==
            IF ~Truthy(task_id)
            THEN Done(create_error_response(name, message.request_id,
                                            <<"Missing 'task_id' in payload">>), tasks, 0)
            ELSE Got(task_id, BackendCall("get", task_id.v, tasks, fault))
    IN  With(message.payload.task_id)

\* [t.model_dump() for t in tasks]
DumpAll(tasks) == [i \in 1..Len(tasks) |-> model_dump(tasks[i])]

\* StorageHandlerAgent._handle_get_all
StorageHandler_handle_get_all(name, message, tasks, fault) ==
    LET Got(r) ==
            IF r.raised THEN Done(Raised(r.exc), r.tasks, 1)
            ELSE Done(create_success_response(name, message.request_id,
                          Dict([tasks |-> DumpAll(r.value)])), r.tasks, 1)
    IN  Got(BackendCall("get_all", PyNone, tasks, fault))

\* StorageHandlerAgent._handle_update
StorageHandler_handle_update(name, message, tasks, fault) ==
    LET Stored(r) ==
            IF r.raised THEN Done(Raised(r.exc), r.tasks, 1)
            ELSE Done(create_success_response(name, message.request_id,
                          Dict([task |-> model_dump(r.value)])), r.tasks, 1)
        With(task_data, task) ==
            IF IsNone(task_data)
            THEN Done(create_error_response(name, message.request_id,
                                            <<"Missing 'task' in payload">>), tasks, 0)
            ELSE IF task = PyNone
            THEN Done(create_error_response(name, message.request_id,
                                            <<"Invalid task data type">>), tasks, 0)
            ELSE IF task.raised THEN Done(Raised(task.exc), tasks, 0)
            ELSE Stored(BackendCall("update", task, tasks, fault))
    IN  With(message.payload.task, TaskOfPayload(message.payload.task))

\* StorageHandlerAgent._handle_delete
StorageHandler_handle_delete(name, message, tasks, fault) ==
    LET Deleted(task_id, r) ==
            IF r.raised THEN Done(Raised(r.exc), r.tasks, 1)
            ELSE Done(create_success_response(name, message.request_id,
                          Dict([deleted |-> r.value, task_id |-> task_id.v])), r.tasks, 1)
        With(task_id) ==
            IF ~Truthy(task_id)
            THEN Done(create_error_response(name, message.request_id,
                                            <<"Missing 'task_id' in payload">>), tasks, 0)
            ELSE Deleted(task_id, BackendCall("delete", task_id.v, tasks, fault))
    IN  With(message.payload.task_id)

\* StorageHandlerAgent._handle_query
StorageHandler_handle_query(name, message, tasks, fault) ==
    LET Got(r) ==
            IF r.raised THEN Done(Raised(r.exc), r.tasks, 1)
            ELSE Done(create_success_response(name, message.request_id,
                          Dict([tasks |-> DumpAll(r.value), count |-> Len(r.value)])),
                      r.tasks, 1)
    IN  Got(BackendCall("query", message.payload.status, tasks, fault))

\* StorageHandlerAgent._handle_clear
StorageHandler_handle_clear(name, message, tasks, fault) ==
    LET Cleared(r) ==
            IF r.raised THEN Done(Raised(r.exc), r.tasks, 1)
            ELSE Done(create_success_response(name, message.request_id,
                          Dict([cleared |-> r.value])), r.tasks, 1)
    IN  Cleared(BackendCall("clear", PyNone, tasks, fault))

\* `await handler(message)` for a handler of the storage agent.
StorageHandler_call(handler, name, message, tasks, fault) ==
    CASE handler = "_handle_save" -> StorageHandler_handle_save(name, message, tasks, fault)
      [] handler = "_handle_get" -> StorageHandler_handle_get(name, message, tasks, fault)
      [] handler = "_handle_get_all" -> StorageHandler_handle_get_all(name, message, tasks, fault)
      [] handler = "_handle_update" -> StorageHandler_handle_update(name, message, tasks, fault)
      [] handler = "_handle_delete" -> StorageHandler_handle_delete(name, message, tasks, fault)
      [] handler = "_handle_query" -> StorageHandler_handle_query(name, message, tasks, fault)
      [] handler = "_handle_clear" -> StorageHandler_handle_clear(name, message, tasks, fault)

\* StorageHandlerAgent.handle_message: the registry lookup, then the handler
\* inside try/except.  The error response for an unknown action is built
\* outside the try block, the ones for a raised fault inside the except
\* clauses; a failure to build either leaves handle_message as an exception.
StorageHandler_handle_message(name, registry, message, tasks, fault) ==
    IF ~HasAction(registry, message.action)
    THEN Done(create_error_response(name, message.request_id,
                  <<"Unknown storage action: ">> \o message.action), tasks, 0)
    ELSE LET Try(r) ==
                 IF ~r.out.raised THEN r
                 ELSE IF r.out.exc.cls \in {"NotFoundError", "StorageError", "ValidationError"}
                 THEN Done(create_error_response(name, message.request_id, r.out.exc.text),
                           r.tasks, r.calls)
                 ELSE Done(create_error_response(name, message.request_id,
                               <<"Internal error: ">> \o r.out.exc.text), r.tasks, r.calls)
         IN  Try(StorageHandler_call(HandlerOf(registry, message.action), name, message, tasks, fault))

----------------------------------------------------------------------------
(* The task agent: src/agents/task_manager.py.  A handler is a coroutine   *)
(* that suspends at each `await self._send_to_storage(...)`.  It is        *)
(* modelled by its stages: stage 0 runs from the entry to the first        *)
(* suspension or return, stage k from the k-th reply to the next.  A stage *)
(* ends in Return(out) or in Send(action, payload, next).                  *)

Return(out) == [k |-> "return", out |-> out]

Send(action, payload, next) ==
    [k |-> "send", action |-> action, payload |-> payload, next |-> next]

\* The action registry filled by TaskManagerAgent.__init__.
TaskManagerActions ==
    RegisterAll(<< >>,
     << <<task_add, "_handle_add">>,
       <<task_list, "_handle_list">>,
       <<task_complete, "_handle_complete">>,
       <<task_delete, "_handle_delete">>,
       <<task_get, "_handle_get">>,
       <<task_update, "_handle_update">> >>)

\* A variant that lets AgentMessage draw a correlation id of its own.
send_to_storage_FreshCorrelation(name, storage_name, n, action, payload, correlation_id) ==
    AgentMessage(uuid4(n), name, storage_name, action, payload, uuid4(n + 1))

\* TaskManagerAgent._send_to_storage: the message built for the storage
\* agent; its request_id is the n-th uuid4 drawn.
send_to_storage(name, storage_name, n, action, payload, correlation_id) ==
    AgentMessage(uuid4(n), name, storage_name, action, payload, correlation_id)

\* `response.error or default`
ErrorOr(response, default) ==
    IF Truthy(response.error) THEN response.error.v ELSE default

\* TaskManagerAgent._handle_add; new_id is the id Task() generates.
TaskManager_handle_add(name, message, stage, reply, new_id) ==
    LET title == message.payload.title
        task == NewTask(new_id, title.v, message.payload.description)
    IN  IF stage = 0
        THEN IF ~Truthy(title)
             THEN Return(create_error_response(name, message.request_id,
                                               <<"Missing 'title' in payload">>))
             ELSE IF task.raised THEN Return(Raised(task.exc))
             ELSE Send(storage_save, [NoPayload EXCEPT !.task = model_dump(task)], 1)
        ELSE IF reply.status = "error"
        THEN Return(create_error_response(name, message.request_id,
                                          ErrorOr(reply, <<"Failed to save task">>)))
        ELSE Return(create_success_response(name, message.request_id, reply.result))

\* TaskManagerAgent._handle_list
TaskManager_handle_list(name, message, stage, reply) ==
    IF stage = 0
    THEN Send(storage_query, [NoPayload EXCEPT !.status = message.payload.status], 1)
    ELSE IF reply.status = "error"
    THEN Return(create_error_response(name, message.request_id,
                                      ErrorOr(reply, <<"Failed to list tasks">>)))
    ELSE Return(create_success_response(name, message.request_id, reply.result))

\* TaskManagerAgent._handle_complete
TaskManager_handle_complete(name, message, stage, reply) ==
    LET task_id == message.payload.task_id
        task == Task(reply.result.task)
    IN  IF stage = 0
        THEN IF ~Truthy(task_id)
             THEN Return(create_error_response(name, message.request_id,
                                               <<"Missing 'task_id' in payload">>))
             ELSE Send(storage_get, [NoPayload EXCEPT !.task_id = task_id], 1)
        ELSE IF stage = 1
        THEN IF reply.status = "error"
             THEN Return(create_error_response(name, message.request_id,
                             ErrorOr(reply, <<"Task not found: ">> \o task_id.v)))
             ELSE IF task.raised THEN Return(Raised(task.exc))
             ELSE Send(storage_update,
                       [NoPayload EXCEPT !.task = model_dump(Task_mark_complete(task))], 2)
        ELSE IF reply.status = "error"
        THEN Return(create_error_response(name, message.request_id,
                                          ErrorOr(reply, <<"Failed to complete task">>)))
        ELSE Return(create_success_response(name, message.request_id, reply.result))

\* TaskManagerAgent._handle_delete
TaskManager_handle_delete(name, message, stage, reply) ==
    LET task_id == message.payload.task_id
    IN  IF stage = 0
        THEN IF ~Truthy(task_id)
             THEN Return(create_error_response(name, message.request_id,
                                               <<"Missing 'task_id' in payload">>))
             ELSE Send(storage_delete, [NoPayload EXCEPT !.task_id = task_id], 1)
        ELSE IF reply.status = "error"
        THEN Return(create_error_response(name, message.request_id,
                                          ErrorOr(reply, <<"Failed to delete task">>)))
        ELSE IF ~reply.result.deleted
        THEN Return(create_error_response(name, message.request_id,
                                          <<"Task not found: ">> \o task_id.v))
        ELSE Return(create_success_response(name, message.request_id,
                        Dict([deleted |-> TRUE, task_id |-> task_id.v])))

\* TaskManagerAgent._handle_get
TaskManager_handle_get(name, message, stage, reply) ==
    LET task_id == message.payload.task_id
    IN  IF stage = 0
        THEN IF ~Truthy(task_id)
             THEN Return(create_error_response(name, message.request_id,
                                               <<"Missing 'task_id' in payload">>))
             ELSE Send(storage_get, [NoPayload EXCEPT !.task_id = task_id], 1)
        ELSE IF reply.status = "error"
        THEN Return(create_error_response(name, message.request_id,
                        ErrorOr(reply, <<"Task not found: ">> \o task_id.v)))
        ELSE Return(create_success_response(name, message.request_id, reply.result))

\* TaskManagerAgent._handle_update
TaskManager_handle_update(name, message, stage, reply) ==
    LET task_id == message.payload.task_id
        title == message.payload.title
        description == message.payload.description
        task == Task(reply.result.task)
    IN  IF stage = 0
        THEN IF ~Truthy(task_id)
             THEN Return(create_error_response(name, message.request_id,
                                               <<"Missing 'task_id' in payload">>))
             ELSE IF IsNone(title) /\ IsNone(description)
             THEN Return(create_error_response(name, message.request_id,
                                               <<"No update fields provided">>))
             ELSE Send(storage_get, [NoPayload EXCEPT !.task_id = task_id], 1)
        ELSE IF stage = 1
        THEN IF reply.status = "error"
             THEN Return(create_error_response(name, message.request_id,
                             ErrorOr(reply, <<"Task not found: ">> \o task_id.v)))
             ELSE IF task.raised THEN Return(Raised(task.exc))
             ELSE Send(storage_update,
                       [NoPayload EXCEPT !.task =
                            model_dump(Task_update(task, title, description))], 2)
        ELSE IF reply.status = "error"
        THEN Return(create_error_response(name, message.request_id,
                                          ErrorOr(reply, <<"Failed to update task">>)))
        ELSE Return(create_success_response(name, message.request_id, reply.result))

\* `await handler(message)` for a handler of the task agent, at one stage.
TaskManager_call(handler, name, message, stage, reply, new_id) ==
    CASE handler = "_handle_add" -> TaskManager_handle_add(name, message, stage, reply, new_id)
      [] handler = "_handle_list" -> TaskManager_handle_list(name, message, stage, reply)
      [] handler = "_handle_complete" -> TaskManager_handle_complete(name, message, stage, reply)
      [] handler = "_handle_delete" -> TaskManager_handle_delete(name, message, stage, reply)
      [] handler = "_handle_get" -> TaskManager_handle_get(name, message, stage, reply)
      [] handler = "_handle_update" -> TaskManager_handle_update(name, message, stage, reply)

\* The except clauses of TaskManagerAgent.handle_message, applied to the
\* exception a handler raised.
TaskManager_except(name, message, exc) ==
    IF exc.cls \in {"ValidationError", "NotFoundError"}
    THEN create_error_response(name, message.request_id, exc.text)
    ELSE create_error_response(name, message.request_id,
                               <<"Internal error: ">> \o exc.text)

\* TaskManagerAgent.handle_message at one stage: the registry lookup (stage
\* 0, outside the try block), then the handler inside try/except.  A reply
\* that is an exception (the awaited storage call raised) is raised at the
\* await inside the handler.
TaskManager_handle_message(name, registry, message, stage, reply, new_id) ==
    IF ~HasAction(registry, message.action)
    THEN Return(create_error_response(name, message.request_id,
                    <<"Unknown task action: ">> \o message.action))
    ELSE IF stage > 0 /\ reply.raised
    THEN Return(TaskManager_except(name, message, reply.exc))
    ELSE LET Try(s) ==
                 IF s.k = "return" /\ s.out.raised
                 THEN Return(TaskManager_except(name, message, s.out.exc))
                 ELSE s
         IN  Try(TaskManager_call(HandlerOf(registry, message.action), name, message,
                                  stage, reply, new_id))

----------------------------------------------------------------------------
(* The UI agent: src/agents/ui_controller.py.  The console adapter is the  *)
(* device: `device` holds what its calls do during one message, a fault    *)
(* that every call raises (PyNone when the device works) and the text and  *)
(* the answer the user types.  What the device prints is not state of the  *)
(* program.                                                                *)

\* The action registry filled by UIControllerAgent.__init__.
UIControllerActions ==
    RegisterAll(<< >>,
     << <<ui_display_menu, "_handle_display_menu">>,
       <<ui_get_choice, "_handle_get_choice">>,
       <<ui_get_task_details, "_handle_get_task_details">>,
       <<ui_get_update_details, "_handle_get_update_details">>,
       <<ui_display_tasks, "_handle_display_tasks">>,
       <<ui_display_task, "_handle_display_task">>,
       <<ui_display_message, "_handle_display_message">>,
       <<ui_confirm, "_handle_confirm">>,
       <<ui_select_task, "_handle_select_task">>,
       <<ui_welcome, "_handle_welcome">>,
       <<ui_goodbye, "_handle_goodbye">> >>)

\* A handler that only shows something and returns an empty success.
UIController_show(name, message, device) ==
    IF ~IsNone(device.fault) THEN Raised(device.fault)
    ELSE create_success_response(name, message.request_id, PyNone)

\* UIControllerAgent._handle_display_menu
UIController_handle_display_menu(name, message, device) ==
    UIController_show(name, message, device)

\* UIControllerAgent._handle_get_choice
UIController_handle_get_choice(name, message, device) ==
    IF ~IsNone(device.fault) THEN Raised(device.fault)
    ELSE create_success_response(name, message.request_id,
                                 Dict([choice |-> Strip(device.text)]))

\* `x if x else None`
OrNone(text) == IF text = << >> THEN PyNone ELSE Str(text)

\* UIControllerAgent._handle_get_task_details
UIController_handle_get_task_details(name, message, device) ==
    IF ~IsNone(device.fault) THEN Raised(device.fault)
    ELSE create_success_response(name, message.request_id,
             Dict([title |-> device.text, description |-> OrNone(device.more)]))

\* UIControllerAgent._handle_get_update_details
UIController_handle_get_update_details(name, message, device) ==
    IF ~IsNone(device.fault) THEN Raised(device.fault)
    ELSE create_success_response(name, message.request_id,
             Dict([title |-> OrNone(device.text), description |-> OrNone(device.more)]))

\* The tasks of payload["tasks"] (default []), each dict validated by Task.
TaskList(tasks_data) ==
    IF IsNone(tasks_data) THEN << >>
    ELSE [i \in 1..Len(tasks_data.v) |-> Task(tasks_data.v[i])]

\* The first validation failure met while converting, or PyNone.
FirstFailure(tasks) ==
    IF \E i \in 1..Len(tasks) : tasks[i].raised
    THEN Raised(tasks[CHOOSE i \in 1..Len(tasks) :
                          /\ tasks[i].raised
                          /\ \A j \in 1..(i - 1) : ~tasks[j].raised].exc)
    ELSE PyNone

\* UIControllerAgent._handle_display_tasks
UIController_handle_display_tasks(name, message, device) ==
    LET tasks == TaskList(message.payload.tasks)
    IN  IF FirstFailure(tasks) # PyNone THEN FirstFailure(tasks)
        ELSE IF ~IsNone(device.fault) THEN Raised(device.fault)
        ELSE create_success_response(name, message.request_id,
                                     Dict([displayed |-> Len(tasks)]))

\* UIControllerAgent._handle_display_task
UIController_handle_display_task(name, message, device) ==
    LET task_data == message.payload.task
        task == TaskOfPayload(task_data)
    IN  IF IsNone(task_data)
        THEN create_error_response(name, message.request_id,
                                   <<"Missing 'task' in payload">>)
        ELSE IF task # PyNone /\ task.raised THEN Raised(task.exc)
        ELSE IF ~IsNone(device.fault) THEN Raised(device.fault)
        ELSE create_success_response(name, message.request_id, PyNone)

\* UIControllerAgent._handle_display_message
UIController_handle_display_message(name, message, device) ==
    UIController_show(name, message, device)

\* UIControllerAgent._handle_confirm
UIController_handle_confirm(name, message, device) ==
    IF ~IsNone(device.fault) THEN Raised(device.fault)
    ELSE create_success_response(name, message.request_id,
                                 Dict([confirmed |-> device.confirmed]))

Digit == ("0" :> 0) @@ ("1" :> 1) @@ ("2" :> 2) @@ ("3" :> 3) @@ ("4" :> 4)
         @@ ("5" :> 5) @@ ("6" :> 6) @@ ("7" :> 7) @@ ("8" :> 8) @@ ("9" :> 9)

\* int(choice) succeeds on a non-empty run of decimal digits.
IsNumber(s) == s # << >> /\ \A i \in 1..Len(s) : s[i] \in DOMAIN Digit

RECURSIVE int(_)
int(s) == IF s = << >> THEN 0 ELSE int(SubSeq(s, 1, Len(s) - 1)) * 10 + Digit[s[Len(s)]]

\* UIControllerAgent._handle_select_task
UIController_handle_select_task(name, message, device) ==
    LET tasks == TaskList(message.payload.tasks)
        choice == device.text
        idx == int(choice) - 1
    IN  IF tasks = << >>
        THEN create_error_response(name, message.request_id,
                                   <<"No tasks available to select">>)
        ELSE IF FirstFailure(tasks) # PyNone THEN FirstFailure(tasks)
        ELSE IF ~IsNone(device.fault) THEN Raised(device.fault)
        ELSE IF ~IsNumber(choice)
        THEN create_error_response(name, message.request_id,
                                   <<"Invalid number: ">> \o choice)
        ELSE IF 0 <= idx /\ idx < Len(tasks)
        THEN create_success_response(name, message.request_id,
                 Dict([task_id |-> tasks[idx + 1].id, index |-> idx]))
        ELSE create_error_response(name, message.request_id,
                                   <<"Invalid selection: ">> \o choice)

\* UIControllerAgent._handle_welcome
UIController_handle_welcome(name, message, device) ==
    UIController_show(name, message, device)

\* UIControllerAgent._handle_goodbye
UIController_handle_goodbye(name, message, device) ==
    UIController_show(name, message, device)

\* `await handler(message)` for a handler of the UI agent.
UIController_call(handler, name, message, device) ==
    CASE handler = "_handle_display_menu" -> UIController_handle_display_menu(name, message, device)
      [] handler = "_handle_get_choice" -> UIController_handle_get_choice(name, message, device)
      [] handler = "_handle_get_task_details" -> UIController_handle_get_task_details(name, message, device)
      [] handler = "_handle_get_update_details" -> UIController_handle_get_update_details(name, message, device)
      [] handler = "_handle_display_tasks" -> UIController_handle_display_tasks(name, message, device)
      [] handler = "_handle_display_task" -> UIController_handle_display_task(name, message, device)
      [] handler = "_handle_display_message" -> UIController_handle_display_message(name, message, device)
      [] handler = "_handle_confirm" -> UIController_handle_confirm(name, message, device)
      [] handler = "_handle_select_task" -> UIController_handle_select_task(name, message, device)
      [] handler = "_handle_welcome" -> UIController_handle_welcome(name, message, device)
      [] handler = "_handle_goodbye" -> UIController_handle_goodbye(name, message, device)

\* UIControllerAgent.handle_message
UIController_handle_message(name, registry, message, device) ==
    IF ~HasAction(registry, message.action)
    THEN create_error_response(name, message.request_id,
                               <<"Unknown UI action: ">> \o message.action)
    ELSE LET Try(out) ==
                 IF ~out.raised THEN out
                 ELSE create_error_response(name, message.request_id,
                                            <<"UI error: ">> \o out.exc.text)
         IN  Try(UIController_call(HandlerOf(registry, message.action), name, message, device))

----------------------------------------------------------------------------
(* Agent objects.  Each object has the name and version given to its       *)
(* constructor; a task agent holds the storage agent it was built with.    *)

Orchestrator == "orchestrator"

\* The agents create_orchestrator builds, and two more task agents: one
\* constructed under a name of its own, one under the default name.
AgentObjects ==
    {"storage_agent", "task_agent", "ui_agent", "other_task_agent", "twin_task_agent"}

AgentClass ==
    [storage_agent |-> "StorageHandlerAgent", task_agent |-> "TaskManagerAgent",
     ui_agent |-> "UIControllerAgent", other_task_agent |-> "TaskManagerAgent",
     twin_task_agent |-> "TaskManagerAgent", orchestrator |-> "OrchestratorAgent"]

\* BaseAgent.name: the constructors' default names, but for other_task_agent,
\* a TaskManagerAgent(storage_agent, name="orchestrator", version="1.0").
AgentName ==
    [storage_agent |-> <<"storage_handler">>, task_agent |-> <<"task_manager">>,
     ui_agent |-> <<"ui_controller">>, other_task_agent |-> <<"orchestrator">>,
     twin_task_agent |-> <<"task_manager">>, orchestrator |-> <<"orchestrator">>]

\* BaseAgent.version: the constructors' default, "1.0.0", but for
\* other_task_agent; the constructors accept any str.
AgentVersion ==
    [o \in AgentObjects \cup {Orchestrator} |->
        IF o = "other_task_agent" THEN <<"1", ".", "0">>
        ELSE <<"1", ".", "0", ".", "0">>]

\* TaskManagerAgent._storage
StorageOf ==
    [task_agent |-> "storage_agent", other_task_agent |-> "storage_agent",
     twin_task_agent |-> "storage_agent"]

\* The registry each constructor fills.
InitialActions(o) ==
    CASE AgentClass[o] = "StorageHandlerAgent" -> StorageHandlerActions
      [] AgentClass[o] = "TaskManagerAgent" -> TaskManagerActions
      [] AgentClass[o] = "UIControllerAgent" -> UIControllerActions
      [] AgentClass[o] = "OrchestratorAgent" ->
            RegisterAll(<< >>,
                << <<system_status, "_handle_status">>,
                   <<system_agents, "_handle_agents">>,
                   <<system_shutdown, "_handle_shutdown">> >>)

----------------------------------------------------------------------------
(* The environment of one handle_message call: env holds the program state *)
(* the call reads (status, agents, actions, running, tasks) and the inputs *)
(* of the call: fault, the exception the backend raises at its call number *)
(* fault.at (0: none); device, what the console does; new_id, the id the   *)
(* next Task() generates.                                                  *)

FaultAt(env, k) == IF env.fault.at = k THEN env.fault.exc ELSE PyNone

\* What a call leaves behind: its outcome, the store, the sub-messages sent
\* to the storage agent with their replies, and the backend calls made.
Result(out, tasks, hops, calls) ==
    [out |-> out, tasks |-> tasks, hops |-> hops, calls |-> calls]

\* A task agent's handle_message run to its end: every stage, each
\* _send_to_storage answered by the storage agent's handle_message.
RECURSIVE TaskManager_run(_, _, _, _, _, _)
TaskManager_run(o, message, env, stage, reply, acc) ==
    LET Replied(s, sub, r) ==
            TaskManager_run(o, message, env, s.next, r.out,
                Result(r.out, r.tasks,
                       Append(acc.hops, [message |-> sub, reply |-> r.out]),
                       acc.calls + r.calls))
        Sent(s, sub) ==
            IF sub.raised
            THEN TaskManager_run(o, message, env, s.next, sub, acc)
            ELSE Replied(s, sub,
                     StorageHandler_handle_message(AgentName[StorageOf[o]],
                         env.actions[StorageOf[o]], sub, acc.tasks,
                         FaultAt(env, acc.calls + 1)))
        Stage(s) ==
            IF s.k = "return" THEN Result(s.out, acc.tasks, acc.hops, acc.calls)
            ELSE Sent(s, send_to_storage(AgentName[o], AgentName[StorageOf[o]],
                             Len(acc.hops) + 1, s.action, s.payload,
                             message.correlation_id))
    IN  Stage(TaskManager_handle_message(AgentName[o], env.actions[o], message,
                                         stage, reply, env.new_id))

\* agent.handle_message(message) for a registered agent object.
Agent_handle_message(o, message, env) ==
    CASE AgentClass[o] = "TaskManagerAgent" ->
            TaskManager_run(o, message, env, 0, PyNone,
                            Result(PyNone, env.tasks, << >>, 0))
      [] AgentClass[o] = "StorageHandlerAgent" ->
            LET Handled(r) == Result(r.out, r.tasks, << >>, r.calls)
            IN  Handled(StorageHandler_handle_message(AgentName[o], env.actions[o],
                            message, env.tasks, FaultAt(env, 1)))
      [] AgentClass[o] = "UIControllerAgent" ->
            Result(UIController_handle_message(AgentName[o], env.actions[o],
                                               message, env.device),
                   env.tasks, << >>, 0)

\* The call of an agent's handle_message, with the message it received.
Agent_receive(o, message, env) ==
    [received |-> message] @@ Agent_handle_message(o, message, env)

----------------------------------------------------------------------------
(* The orchestrator: src/agents/orchestrator.py *)

\* OrchestratorAgent.ROUTE_PREFIXES, in declaration order.
ROUTE_PREFIXES ==
    << [prefix |-> <<"t", "a", "s", "k", "_">>, agent_name |-> <<"task_manager">>],
       [prefix |-> <<"s", "t", "o", "r", "a", "g", "e", "_">>, agent_name |-> <<"storage_handler">>],
       [prefix |-> <<"u", "i", "_">>, agent_name |-> <<"ui_controller">>],
       [prefix |-> <<"s", "y", "s", "t", "e", "m", "_">>, agent_name |-> <<"orchestrator">>] >>

\* The loop of _get_route_for_action from entry i on.
RECURSIVE ScanRoutes(_, _)
ScanRoutes(action, i) ==
    IF i > Len(ROUTE_PREFIXES) THEN PyNone
    ELSE IF StartsWith(action, ROUTE_PREFIXES[i].prefix)
    THEN Str(ROUTE_PREFIXES[i].agent_name)
    ELSE ScanRoutes(action, i + 1)

\* A variant that takes a prefix found anywhere in the action.
get_route_for_action_Anywhere(action) ==
    IF \E i \in 1..Len(ROUTE_PREFIXES) : Mentions(action, ROUTE_PREFIXES[i].prefix)
    THEN Str(ROUTE_PREFIXES[CHOOSE i \in 1..Len(ROUTE_PREFIXES) :
                 /\ Mentions(action, ROUTE_PREFIXES[i].prefix)
                 /\ \A j \in 1..(i - 1) :
                        ~Mentions(action, ROUTE_PREFIXES[j].prefix)].agent_name)
    ELSE PyNone

\* OrchestratorAgent._get_route_for_action
get_route_for_action(action) == ScanRoutes(action, 1)

\* str(list(self.ROUTE_PREFIXES.keys())): "['task_', 'storage_', ...]"
RECURSIVE PrefixListFrom(_)
PrefixListFrom(i) ==
    IF i > Len(ROUTE_PREFIXES) THEN <<"]">>
    ELSE (IF i > 1 THEN <<", ">> ELSE << >>)
         \o <<"'">> \o ROUTE_PREFIXES[i].prefix \o <<"'">> \o PrefixListFrom(i + 1)

PrefixList == <<"[">> \o PrefixListFrom(1)

\* self._agents.get(agent_name): the object registered under the name.
HasAgent(agents, name) == \E i \in 1..Len(agents) : agents[i].name = name

AgentNamed(agents, name) ==
    agents[CHOOSE i \in 1..Len(agents) : agents[i].name = name].agent

\* re.match(r"^\d+\.\d+\.\d+$", v)
IsSemver(v) ==
    \E i, j \in 1..Len(v) :
        /\ 1 < i /\ i + 1 < j /\ j < Len(v)
        /\ v[i] = "." /\ v[j] = "."
        /\ \A k \in 1..Len(v) : k \notin {i, j} => v[k] \in DOMAIN Digit

\* BaseAgent.get_info followed by model_dump: AgentInfo validates the name
\* (min_length 1) and the version (semver).
get_info(o, env) ==
    IF AgentName[o] = << >> \/ ~IsSemver(AgentVersion[o])
    THEN Raised(PydanticError(<<"Version must be in semver format (x.y.z)">>))
    ELSE [raised |-> FALSE, t |-> "dict", name |-> AgentName[o],
          status |-> env.status[o], version |-> AgentVersion[o],
          supported_actions |-> supported_actions(env.actions[o])]

\* [agent.get_info().model_dump() for agent in self._agents.values()]
AgentsInfo(env) == [i \in 1..Len(env.agents) |-> get_info(env.agents[i].agent, env)]

\* What a system handler leaves behind: its outcome and the running flag.
SysDone(out, running) == [out |-> out, running |-> running]

\* OrchestratorAgent._handle_status
Orchestrator_handle_status(message, env) ==
    LET agents_info == AgentsInfo(env)
    IN  IF FirstFailure(agents_info) # PyNone
        THEN SysDone(FirstFailure(agents_info), env.running)
        ELSE SysDone(create_success_response(AgentName[Orchestrator], message.request_id,
                 Dict([orchestrator |->
                           [name |-> AgentName[Orchestrator],
                            version |-> AgentVersion[Orchestrator],
                            status |-> env.status[Orchestrator],
                            running |-> env.running],
                       agents |-> agents_info,
                       total_agents |-> Len(env.agents)])), env.running)

\* OrchestratorAgent._handle_agents
Orchestrator_handle_agents(message, env) ==
    LET agents_info == AgentsInfo(env)
    IN  IF FirstFailure(agents_info) # PyNone
        THEN SysDone(FirstFailure(agents_info), env.running)
        ELSE SysDone(create_success_response(AgentName[Orchestrator], message.request_id,
                 Dict([agents |-> agents_info, count |-> Len(agents_info)])),
                 env.running)

\* A variant that acknowledges the shutdown and leaves the flag as it is.
Orchestrator_handle_shutdown_KeepRunning(message, env) ==
    SysDone(create_success_response(AgentName[Orchestrator], message.request_id,
                                    Dict([shutdown |-> TRUE])), env.running)

\* OrchestratorAgent._handle_shutdown
Orchestrator_handle_shutdown(message, env) ==
    SysDone(create_success_response(AgentName[Orchestrator], message.request_id,
                                    Dict([shutdown |-> TRUE])), FALSE)

\* `await handler(message)` for a system handler.
Orchestrator_call(handler, message, env) ==
    CASE handler = "_handle_status" -> Orchestrator_handle_status(message, env)
      [] handler = "_handle_agents" -> Orchestrator_handle_agents(message, env)
      [] handler = "_handle_shutdown" -> Orchestrator_handle_shutdown(message, env)

\* What OrchestratorAgent.handle_message leaves behind: its outcome, the
\* route it chose, the agent object it called (PyNone: none) with the
\* message it passed and the outcome of that call, the store, the running
\* flag, the sub-messages sent and the backend calls made.
Routed(out, route, target, delivered, reply, tasks, running, hops, calls) ==
    [out |-> out, route |-> route, target |-> target, delivered |-> delivered,
     reply |-> reply, tasks |-> tasks, running |-> running, hops |-> hops,
     calls |-> calls]

\* The answer built without calling any agent.
Unrouted(out, route, env) ==
    Routed(out, route, PyNone, PyNone, PyNone, env.tasks, env.running, << >>, 0)

\* A variant in which an agent that is not active refuses the message.
Orchestrator_forward_ActiveOnly(o, message, env) ==
    IF env.status[o] = "active" /\ env.running
    THEN Agent_receive(o, message, env)
    ELSE [Agent_receive(o, message, env)
             EXCEPT !.out = Raised(Exc("RuntimeError", <<"agent is not active">>)),
                    !.tasks = env.tasks]

\* A variant that re-addresses the message to the agent it forwards to.
Orchestrator_forward_Readdressed(o, message, env) ==
    Agent_receive(o, [message EXCEPT !.sender = AgentName[Orchestrator],
                                     !.recipient = AgentName[o]], env)

\* `response = await agent.handle_message(message)` (lines 183-192)
Orchestrator_forward(o, message, env) == Agent_receive(o, message, env)

\* OrchestratorAgent.handle_message
Orchestrator_handle_message(message, env) ==
    LET self == AgentName[Orchestrator]
        System(agent_name, handled) ==
            IF ~handled.out.raised
            THEN [Unrouted(handled.out, agent_name, env)
                     EXCEPT !.running = handled.running]
            ELSE [Unrouted(create_error_response(self, message.request_id,
                               <<"System error: ">> \o handled.out.exc.text),
                           agent_name, env)
                     EXCEPT !.running = handled.running]
        Forwarded(agent_name, agent, r) ==
            IF ~r.out.raised
            THEN Routed(r.out, agent_name, Str(<<agent>>), r.received, r.out,
                        r.tasks, env.running, r.hops, r.calls)
            ELSE Routed(create_error_response(self, message.request_id,
                            <<"Error routing to ">> \o agent_name.v \o <<": ">>
                            \o r.out.exc.text),
                        agent_name, Str(<<agent>>), r.received, r.out,
                        r.tasks, env.running, r.hops, r.calls)
        Forward(agent_name, agent) ==
            Forwarded(agent_name, agent, Orchestrator_forward(agent, message, env))
        Route(agent_name) ==
            IF IsNone(agent_name)
            THEN Unrouted(create_error_response(self, message.request_id,
                              <<"Unknown action: ">> \o message.action
                              \o <<". Expected prefixes: ">> \o PrefixList),
                          agent_name, env)
            ELSE IF agent_name.v = <<"orchestrator">>
            THEN IF ~HasAction(env.actions[Orchestrator], message.action)
                 THEN Unrouted(create_error_response(self, message.request_id,
                                   <<"Unknown system action: ">> \o message.action),
                               agent_name, env)
                 ELSE System(agent_name,
                             Orchestrator_call(HandlerOf(env.actions[Orchestrator],
                                                         message.action),
                                               message, env))
            ELSE IF ~HasAgent(env.agents, agent_name.v)
            THEN Unrouted(create_error_response(self, message.request_id,
                              <<"Agent not registered: ">> \o agent_name.v),
                          agent_name, env)
            ELSE Forward(agent_name, AgentNamed(env.agents, agent_name.v))
    IN  Route(get_route_for_action(message.action))

----------------------------------------------------------------------------
(* The state of the program. *)

VARIABLES
    status,     \* BaseAgent._status of every agent object and the orchestrator
    running,    \* OrchestratorAgent._running
    agents,     \* OrchestratorAgent._agents: the entries in insertion order
    actions,    \* BaseAgent._actions of every agent object and the orchestrator
    tasks,      \* InMemoryBackend._tasks
    pc,         \* where a running start() or stop() of the orchestrator stands
    started,    \* the agents a running start() has started so far, in order
    last,       \* the handle_message call that is returning to its caller:
                \* its inputs and what it left; NoCall when none is
    inflight,   \* the handle_message coroutines suspended at an await, one
                \* frame per request chain; Free where none is running
    registered, \* the agent objects given to register_agent so far, in the
                \* order of their first registration
    lock        \* InMemoryBackend._lock: TRUE while the asyncio.Lock is held

vars ==
    <<status, running, agents, actions, tasks, pc, started, last, inflight, registered,
      lock>>

Idle == [op |-> "idle", i |-> 0]

NoCall == [message |-> PyNone]

Chains == 1..MaxChains

Free == [message |-> PyNone]

NoChains == [c \in Chains |-> Free]

\* The entries create_orchestrator registers, in its order.
Assembled ==
    << [name |-> AgentName["storage_agent"], agent |-> "storage_agent"],
       [name |-> AgentName["task_agent"], agent |-> "task_agent"],
       [name |-> AgentName["ui_agent"], agent |-> "ui_agent"] >>

\* The state after the constructors have run, with `table` registered.
Constructed(table) ==
    /\ status = [o \in AgentObjects \cup {Orchestrator} |-> "inactive"]
    /\ running = FALSE
    /\ agents = table
    /\ actions = [o \in AgentObjects \cup {Orchestrator} |-> InitialActions(o)]
    /\ tasks = << >>
    /\ pc = Idle
    /\ started = << >>
    /\ last = NoCall
    /\ inflight = NoChains
    /\ registered = [i \in 1..Len(table) |-> table[i].agent]
    /\ lock = FALSE

----------------------------------------------------------------------------
(* Lifecycle: src/agents/base.py and OrchestratorAgent.start / stop.  The  *)
(* orchestrator's start() and stop() await coroutines that never suspend,  *)
(* so no other call runs between their steps; pc keeps the others out.     *)
(* A client makes one call at a time: while `last` holds a call that has   *)
(* not returned to it, nothing else starts.                                *)

\* A variant that flips the status instead of setting it.
BaseAgent_start_Toggle(st, o) ==
    [st EXCEPT ![o] = IF @ = "active" THEN "inactive" ELSE "active"]

\* BaseAgent.start
BaseAgent_start(st, o) == [st EXCEPT ![o] = "active"]

\* A variant in which stopping an agent also stops the orchestrator.
BaseAgent_stop_WithOrchestrator(st, o) ==
    [st EXCEPT ![o] = "inactive", ![Orchestrator] = "inactive"]

\* BaseAgent.stop
BaseAgent_stop(st, o) == [st EXCEPT ![o] = "inactive"]

\* agent.start() called on an agent object directly.
AgentStart(o) ==
    /\ pc = Idle /\ last = NoCall
    /\ status' = BaseAgent_start(status, o)
    /\ UNCHANGED <<lock, running, agents, actions, tasks, pc,
                   started, last, inflight, registered>>

\* agent.stop() called on an agent object directly.
AgentStop(o) ==
    /\ pc = Idle /\ last = NoCall
    /\ status' = BaseAgent_stop(status, o)
    /\ UNCHANGED <<lock, running, agents, actions, tasks, pc,
                   started, last, inflight, registered>>

\* A variant that walks the table from its end.
LoopAgent_Reversed(table, i) == table[Len(table) + 1 - i].agent

\* The agent the loop `for agent in self._agents.values()` visits i-th.
LoopAgent(table, i) == table[i].agent

\* OrchestratorAgent.start, to the head of its loop.
StartBegin ==
    /\ pc = Idle /\ last = NoCall
    /\ status' = BaseAgent_start(status, Orchestrator)
    /\ running' = TRUE
    /\ pc' = [op |-> "start", i |-> 1]
    /\ started' = << >>
    /\ UNCHANGED <<lock, agents, actions, tasks, last, inflight, registered>>

\* One iteration of the loop of OrchestratorAgent.start.
StartAgent ==
    /\ pc.op = "start" /\ pc.i <= Len(agents)
    /\ status' = BaseAgent_start(status, LoopAgent(agents, pc.i))
    /\ started' = Append(started, LoopAgent(agents, pc.i))
    /\ pc' = [pc EXCEPT !.i = @ + 1]
    /\ UNCHANGED <<lock, running, agents, actions, tasks, last, inflight, registered>>

\* OrchestratorAgent.start returns.
StartEnd ==
    /\ pc.op = "start" /\ pc.i > Len(agents)
    /\ pc' = Idle
    /\ started' = << >>
    /\ UNCHANGED <<lock, status, running, agents, actions,
                   tasks, last, inflight, registered>>

\* OrchestratorAgent.stop, to the head of its loop.
StopBegin ==
    /\ pc = Idle /\ last = NoCall
    /\ running' = FALSE
    /\ pc' = [op |-> "stop", i |-> 1]
    /\ UNCHANGED <<lock, status, agents, actions, tasks,
                   started, last, inflight, registered>>

\* One iteration of the loop of OrchestratorAgent.stop.
StopAgent ==
    /\ pc.op = "stop" /\ pc.i <= Len(agents)
    /\ status' = BaseAgent_stop(status, LoopAgent(agents, pc.i))
    /\ pc' = [pc EXCEPT !.i = @ + 1]
    /\ UNCHANGED <<lock, running, agents, actions, tasks,
                   started, last, inflight, registered>>

\* OrchestratorAgent.stop: super().stop() after the loop, and the return.
StopEnd ==
    /\ pc.op = "stop" /\ pc.i > Len(agents)
    /\ status' = BaseAgent_stop(status, Orchestrator)
    /\ pc' = Idle
    /\ UNCHANGED <<lock, running, agents, actions, tasks,
                   started, last, inflight, registered>>

----------------------------------------------------------------------------
(* Assembly: OrchestratorAgent.register_agent. *)

\* self._agents[agent.name] = agent
register_agent(table, o) ==
    IF HasAgent(table, AgentName[o])
    THEN [table EXCEPT ![CHOOSE i \in 1..Len(table) : table[i].name = AgentName[o]]
                            = [name |-> AgentName[o], agent |-> o]]
    ELSE Append(table, [name |-> AgentName[o], agent |-> o])

RegisterAgent(o) ==
    /\ pc = Idle /\ last = NoCall
    /\ Len(register_agent(agents, o)) <= MaxAgents
    /\ agents' = register_agent(agents, o)
    /\ registered' = IF \E i \in 1..Len(registered) : registered[i] = o
                     THEN registered ELSE Append(registered, o)
    /\ UNCHANGED <<lock, status, running, actions, tasks,
                   pc, started, last, inflight>>

\* agent.register_action(action, handler), called on an agent object or on
\* the orchestrator.
RegisterAction(o, action, handler) ==
    /\ pc = Idle /\ last = NoCall
    /\ actions' = [actions EXCEPT ![o] = register_action(@, action, handler)]
    /\ UNCHANGED <<lock, status, running, agents, tasks, pc,
                   started, last, inflight, registered>>

----------------------------------------------------------------------------
(* The inputs of handle_message. *)

\* generate_task_id(): the ids are t1, t2, ...; a generated id is one that
\* no stored task has.
TaskId(i) == <<"t", ToString(i)>>

TaskIds == {TaskId(i) : i \in 1..MaxTasks}

StoredIds(ts) == {ts[i].id : i \in 1..Len(ts)}

\* The ids of the tasks that in-flight chains have built and not yet saved.
PendingIds(frames) ==
    UNION {{frames[c].hops[k].payload.task.id :
                k \in {j \in 1..Len(frames[c].hops) :
                          ~IsNone(frames[c].hops[j].payload.task)}} :
            c \in {d \in Chains : frames[d] # Free}}

UsedIds == StoredIds(tasks) \cup PendingIds(inflight)

CanGenerate(used) == TaskIds \ used # {}

generate_task_id(used) ==
    TaskId(CHOOSE i \in 1..MaxTasks :
               /\ TaskId(i) \notin used
               /\ \A j \in 1..(i - 1) : TaskId(j) \in used)

\* The request ids a caller gives a message: one like those AgentMessage
\* generates, and the empty string.
RequestIds == {<<"r1">>, << >>}

CorrelationIds == {<<"c1">>}

NoFault == [at |-> 0, exc |-> PyNone]

\* The backend fails at its first call of the chain, or at its second.
Faults ==
    {NoFault,
     [at |-> 1, exc |-> Exc("StorageError", <<"db down">>)],
     [at |-> 2, exc |-> Exc("RuntimeError", << >>)]}

Console(text) == [fault |-> PyNone, text |-> text, more |-> << >>, confirmed |-> TRUE]

BrokenConsole ==
    [fault |-> Exc("EOFError", <<"EOF when reading a line">>), text |-> << >>,
     more |-> << >>, confirmed |-> FALSE]

TaskDict(id, title, st) ==
    [t |-> "dict", id |-> id, title |-> title, description |-> PyNone,
     status |-> st,
     completed_at |-> IF st = COMPLETED THEN NowStamp ELSE PyNone]

Req(action, payload) == [action |-> action, payload |-> payload]

IdArgs == {PyNone} \cup {Str(id) : id \in TaskIds}

TaskRequests ==
    {Req(task_add, [NoPayload EXCEPT !.title = ti]) :
        ti \in {PyNone, Str(<<"A">>), Str(<<" ">>)}}
    \cup {Req(task_list, [NoPayload EXCEPT !.status = st]) :
        st \in {PyNone, Str(PENDING), Str(COMPLETED)}}
    \cup {Req(a, [NoPayload EXCEPT !.task_id = id]) :
        a \in {task_complete, task_delete, task_get}, id \in IdArgs}
    \cup {Req(task_update, [NoPayload EXCEPT !.task_id = id, !.title = ti]) :
        id \in IdArgs, ti \in {PyNone, Str(<<"B">>)}}
    \cup {Req(task_unknown, NoPayload)}

StorageRequests ==
    {Req(a, [NoPayload EXCEPT !.task = d]) :
        a \in {storage_save, storage_update},
        d \in {PyNone, [t |-> "int"], TaskDict(TaskId(1), << >>, PENDING)}
              \cup {TaskDict(id, <<"A">>, st) : id \in TaskIds, st \in {PENDING, COMPLETED}}}
    \cup {Req(a, [NoPayload EXCEPT !.task_id = id]) :
        a \in {storage_get, storage_delete}, id \in IdArgs}
    \cup {Req(storage_query, [NoPayload EXCEPT !.status = st]) :
        st \in {PyNone, Str(COMPLETED)}}
    \cup {Req(a, NoPayload) : a \in {storage_get_all, storage_clear, storage_unknown}}

UIRequests ==
    {Req(a, NoPayload) :
        a \in {ui_display_menu, ui_get_choice, ui_get_task_details,
               ui_get_update_details, ui_display_tasks, ui_display_task,
               ui_display_message, ui_confirm, ui_select_task, ui_welcome,
               ui_goodbye, ui_unknown}}
    \cup {Req(a, [NoPayload EXCEPT !.tasks = [t |-> "list", v |-> l]]) :
            a \in {ui_display_tasks, ui_select_task},
            l \in {<<TaskDict(TaskId(1), <<"A">>, PENDING)>>,
                   <<TaskDict(TaskId(1), << >>, PENDING)>>}}
    \cup {Req(ui_display_task, [NoPayload EXCEPT !.task = TaskDict(TaskId(1), <<"A">>, PENDING)])}

SystemRequests ==
    {Req(a, NoPayload) :
        a \in {system_status, system_agents, system_shutdown, system_unknown}}

UnknownRequests ==
    {Req(a, NoPayload) :
        a \in {bogus_op, my_task_add, bare_task, capital_Task_add, unknown_action}}

\* A call: the request with what the backend and the console do during it.
Call(req, fault, device) ==
    [action |-> req.action, payload |-> req.payload, fault |-> fault, device |-> device]

Calls ==
    {Call(r, f, Console(<<"1">>)) : r \in TaskRequests \cup StorageRequests, f \in Faults}
    \cup {Call(r, NoFault, d) :
            r \in UIRequests, d \in {Console(<<"1">>), Console(<<"x">>), Console(<<"7">>), BrokenConsole}}
    \cup {Call(r, NoFault, Console(<<"1">>)) : r \in SystemRequests \cup UnknownRequests}

\* The calls that leave the store as it is, whatever it holds.
ReadOnlyCalls ==
    {Call(r, NoFault, Console(<<"1">>)) :
        r \in SystemRequests \cup UnknownRequests
              \cup {Req(task_get, [NoPayload EXCEPT !.task_id = Str(TaskId(1))]),
                    Req(task_list, NoPayload),
                    Req(storage_get_all, NoPayload),
                    Req(ui_welcome, NoPayload)}}

----------------------------------------------------------------------------
(* handle_message, called on the orchestrator by a client. *)

\* A variant in which handling a message empties the agent table.
Orchestrator_tables_Cleared(env) == [agents |-> << >>, actions |-> env.actions]

\* What handle_message and the handlers it reaches leave of self._agents
\* and of every self._actions: none of them assigns to either.
Orchestrator_tables(env) == [agents |-> env.agents, actions |-> env.actions]

Env(call) ==
    [status |-> status, agents |-> agents, actions |-> actions,
     running |-> running, tasks |-> tasks, fault |-> call.fault,
     device |-> call.device,
     new_id |-> IF CanGenerate(UsedIds) THEN generate_task_id(UsedIds) ELSE << >>]

HandleMessage(call, request_id, correlation_id) ==
    LET Handled(m, r) ==
            /\ tasks' = r.tasks
            /\ running' = r.running
            /\ agents' = Orchestrator_tables(Env(call)).agents
            /\ actions' = Orchestrator_tables(Env(call)).actions
            /\ last' = [message |-> m, fault |-> call.fault, device |-> call.device,
                        out |-> r.out, route |-> r.route, target |-> r.target,
                        delivered |-> r.delivered, reply |-> r.reply,
                        hops |-> r.hops, calls |-> r.calls]
        Sent(m) ==
            /\ ~m.raised
            /\ Handled(m, Orchestrator_handle_message(m, Env(call)))
    IN  /\ pc = Idle /\ last = NoCall
        /\ call.action = task_add => CanGenerate(UsedIds)
        /\ Sent(AgentMessage(request_id, <<"test">>, <<"orchestrator">>,
                             call.action, call.payload, correlation_id))
        /\ UNCHANGED <<lock, status, pc, started, inflight, registered>>

\* The call returns to the client.
Returned_ ==
    /\ last # NoCall
    /\ last' = NoCall
    /\ UNCHANGED <<lock, status, running, agents, actions, tasks,
                   pc, started, inflight, registered>>

----------------------------------------------------------------------------
(* Spec: the orchestrator create_orchestrator assembles, its start / stop, *)
(* and every call of Calls.                                                *)

Init == Constructed(Assembled)

Handle == \E c \in Calls, rid \in RequestIds, cid \in CorrelationIds : HandleMessage(c, rid, cid)

Next ==
    \/ StartBegin
    \/ StartAgent
    \/ StartEnd
    \/ StopBegin
    \/ StopAgent
    \/ StopEnd
    \/ Handle
    \/ Returned_

Spec == Init /\ [][Next]_vars

----------------------------------------------------------------------------
(* SpecLifecycle: an orchestrator assembled by hand from the agent objects, *)
(* and every lifecycle operation: start / stop of the orchestrator and of  *)
(* each agent object on its own.                                           *)

InitLifecycle == Constructed(<< >>)

Register == \E o \in AgentObjects : RegisterAgent(o)

StartOne == \E o \in AgentObjects \cup {Orchestrator} : AgentStart(o)

StopOne == \E o \in AgentObjects \cup {Orchestrator} : AgentStop(o)

NextLifecycle ==
    \/ Register
    \/ StartOne
    \/ StopOne
    \/ StartBegin
    \/ StartAgent
    \/ StartEnd
    \/ StopBegin
    \/ StopAgent
    \/ StopEnd

SpecLifecycle == InitLifecycle /\ [][NextLifecycle]_vars

----------------------------------------------------------------------------
(* SpecRouting: an orchestrator assembled by hand, its start / stop, and   *)
(* the calls that leave the store alone, made at any point of the assembly *)
(* and in any lifecycle state.                                             *)

HandleReadOnly ==
    \E c \in ReadOnlyCalls, rid \in RequestIds, cid \in CorrelationIds : HandleMessage(c, rid, cid)

NextRouting ==
    \/ Register
    \/ StartBegin
    \/ StartAgent
    \/ StartEnd
    \/ StopBegin
    \/ StopAgent
    \/ StopEnd
    \/ HandleReadOnly
    \/ Returned_

SpecRouting == InitLifecycle /\ [][NextRouting]_vars

----------------------------------------------------------------------------
(* SpecRegistry: the assembled orchestrator, register_action called on the *)
(* task agent and on the orchestrator after assembly, and calls that reach *)
(* every agent, on their success and error paths.                          *)

\* The register_action calls made: an action registered anew, and an action
\* of the constructor registered again, with another handler and with its
\* own.
Registrations ==
    {<<"task_agent", task_add, "_handle_list">>,
     <<"task_agent", task_add, "_handle_add">>,
     <<"task_agent", task_unknown, "_handle_get">>,
     <<Orchestrator, system_unknown, "_handle_agents">>,
     <<Orchestrator, system_status, "_handle_agents">>}

RegisterActionAny == \E r \in Registrations : RegisterAction(r[1], r[2], r[3])

RegistryCalls ==
    ReadOnlyCalls
    \cup {Call(Req(task_add, [NoPayload EXCEPT !.title = Str(<<"A">>)]), f, Console(<<"1">>)) :
            f \in Faults}
    \cup {Call(Req(a, NoPayload), NoFault, Console(<<"1">>)) :
            a \in {task_unknown, storage_clear, storage_unknown}}
    \cup {Call(Req(ui_get_choice, NoPayload), NoFault, BrokenConsole)}

HandleRegistry ==
    \E c \in RegistryCalls, rid \in RequestIds, cid \in CorrelationIds :
        HandleMessage(c, rid, cid)

NextRegistry ==
    \/ RegisterActionAny
    \/ HandleRegistry
    \/ Returned_

SpecRegistry == Init /\ [][NextRegistry]_vars

----------------------------------------------------------------------------
(* SpecAssembly: create_orchestrator called on nothing, then the           *)
(* orchestrator it returned is started, stopped and called.                *)

\* create_orchestrator: the three constructors, the three register_agent
\* calls and the return; start() is called on nothing.
CreateOrchestrator ==
    /\ pc = Idle /\ last = NoCall
    /\ agents = << >> /\ registered = << >>
    /\ agents' = register_agent(
                     register_agent(
                         register_agent(<< >>, "storage_agent"), "task_agent"),
                     "ui_agent")
    /\ registered' = <<"storage_agent", "task_agent", "ui_agent">>
    /\ UNCHANGED <<lock, status, running, actions, tasks, pc, started, last, inflight>>

NextAssembly ==
    \/ CreateOrchestrator
    \/ StartBegin
    \/ StartAgent
    \/ StartEnd
    \/ StopBegin
    \/ StopAgent
    \/ StopEnd
    \/ HandleReadOnly
    \/ Returned_

SpecAssembly == InitLifecycle /\ [][NextAssembly]_vars

----------------------------------------------------------------------------
(* SpecEnvelope: every attempt to construct an AgentResponse from field     *)
(* values, with the values given and what the constructor left.            *)

ResponseIds == {<< >>, <<"r1">>, <<"r2">>}

Senders == {<< >>, <<"task_manager">>}

Statuses == {"success", "error", "pending"}

ResultValues == {PyNone, Dict([shutdown |-> TRUE])}

ErrorValues == {PyNone, Str(<< >>), Str(<<"boom">>)}

\* AgentResponse(request_id=..., sender=..., status=..., result=..., error=...)
Construct(request_id, sender, st, result, error) ==
    /\ pc = Idle /\ last = NoCall
    /\ last' = [message |-> PyNone,
                given |-> [request_id |-> request_id, sender |-> sender,
                           status |-> st, result |-> result, error |-> error],
                out |-> AgentResponse(request_id, sender, st, result, error)]
    /\ UNCHANGED <<lock, status, running, agents, actions, tasks,
                   pc, started, inflight, registered>>

ConstructAny ==
    \E request_id \in ResponseIds, sender \in Senders, st \in Statuses,
       result \in ResultValues, error \in ErrorValues :
        Construct(request_id, sender, st, result, error)

NextEnvelope ==
    \/ ConstructAny
    \/ Returned_

SpecEnvelope == InitLifecycle /\ [][NextEnvelope]_vars

----------------------------------------------------------------------------
(* SpecMessage: every attempt to construct an AgentMessage from values of  *)
(* sender, recipient and action, with the values given and what the        *)
(* constructor left.                                                       *)

FieldValues ==
    {<< >>, <<" ">>, <<" ", " ">>, <<"a">>, <<" ", "a">>, <<"a", " ">>,
     <<"a", " ", "b">>}

\* AgentMessage(request_id=..., sender=..., recipient=..., action=...)
ConstructMessage(sender, recipient, action) ==
    /\ pc = Idle /\ last = NoCall
    /\ last' = [message |-> PyNone,
                given |-> [sender |-> sender, recipient |-> recipient,
                           action |-> action],
                out |-> AgentMessage(<<"r1">>, sender, recipient, action,
                                     NoPayload, <<"c1">>)]
    /\ UNCHANGED <<lock, status, running, agents, actions, tasks,
                   pc, started, inflight, registered>>

ConstructMessageAny ==
    \E sender \in FieldValues, recipient \in FieldValues, action \in FieldValues :
        ConstructMessage(sender, recipient, action)

NextMessage ==
    \/ ConstructMessageAny
    \/ Returned_

SpecMessage == InitLifecycle /\ [][NextMessage]_vars

----------------------------------------------------------------------------

(* SpecConc: request chains running concurrently.  A chain is one           *)
(* handle_message call that the orchestrator forwards to a task agent; the *)
(* coroutine suspends at each `await self._send_to_storage(...)`, where    *)
(* the storage call of another chain may run first.  A frame holds the     *)
(* message of the chain, the stage its handler resumes at, the sub-message *)
(* it is waiting on (PyNone once it has returned), the sub-messages sent   *)
(* so far and its outcome.                                                 *)

Frame(message, agent, stage, sub, hops, out) ==
    [message |-> message, agent |-> agent, stage |-> stage, sub |-> sub,
     hops |-> hops, out |-> out]

\* The frame of chain c after its handler ended a stage in s: returned, or
\* built the next sub-message (the uuid4 drawn is one no other hop draws).
Advance(frame, s, c) ==
    LET o == frame.agent
        Built(sub) ==
            IF sub.raised
            THEN Frame(frame.message, o, s.next, PyNone, frame.hops,
                       TaskManager_handle_message(AgentName[o], actions[o],
                           frame.message, s.next, sub, << >>).out)
            ELSE Frame(frame.message, o, s.next, sub, Append(frame.hops, sub), PyNone)
    IN  IF s.k = "return"
        THEN Frame(frame.message, o, frame.stage, PyNone, frame.hops, s.out)
        ELSE Built(send_to_storage(AgentName[o], AgentName[StorageOf[o]],
                       Len(frame.hops) * MaxChains + c, s.action, s.payload,
                       frame.message.correlation_id))

ChainRequestId(c) == <<"r", ToString(c)>>

ChainCorrelationIds == {<<"c1">>, <<"c2">>}

ChainRequests ==
    {Req(task_add, [NoPayload EXCEPT !.title = Str(<<"A">>)]),
     Req(task_add, NoPayload),
     Req(task_complete, [NoPayload EXCEPT !.task_id = Str(TaskId(1))]),
     Req(task_update, [NoPayload EXCEPT !.task_id = Str(TaskId(1)), !.title = Str(<<"B">>)]),
     Req(task_delete, [NoPayload EXCEPT !.task_id = Str(TaskId(1))])}

ChainFaults == {PyNone, Exc("StorageError", <<"db down">>)}

\* orchestrator.handle_message(m) up to the first suspension of the task
\* agent's handler.
ChainSubmit(c, req, correlation_id) ==
    LET Start(m, o) ==
            /\ AgentClass[o] = "TaskManagerAgent"
            /\ inflight' = [inflight EXCEPT ![c] =
                   Advance(Frame(m, o, 0, PyNone, << >>, PyNone),
                           TaskManager_handle_message(AgentName[o], actions[o], m, 0,
                               PyNone,
                               IF CanGenerate(UsedIds) THEN generate_task_id(UsedIds)
                               ELSE << >>),
                           c)]
        RoutedTo(m, agent_name) ==
            /\ ~IsNone(agent_name)
            /\ HasAgent(agents, agent_name.v)
            /\ Start(m, AgentNamed(agents, agent_name.v))
        Sent(m) ==
            /\ ~m.raised
            /\ RoutedTo(m, get_route_for_action(m.action))
    IN  /\ pc = Idle /\ last = NoCall
        /\ inflight[c] = Free
        /\ req.action = task_add => CanGenerate(UsedIds)
        /\ Sent(AgentMessage(ChainRequestId(c), <<"test">>, <<"orchestrator">>,
                             req.action, req.payload, correlation_id))
        /\ UNCHANGED <<lock, status, running, agents, actions, tasks,
                       pc, started, last, registered>>

\* The storage agent handles the sub-message chain c waits on, and the
\* chain's handler resumes with the reply, up to its next suspension.
ChainDeliver(c, fault) ==
    LET frame == inflight[c]
        o == frame.agent
        Resume(r) ==
            /\ tasks' = r.tasks
            /\ inflight' = [inflight EXCEPT ![c] =
                   Advance(frame,
                           TaskManager_handle_message(AgentName[o], actions[o],
                               frame.message, frame.stage, r.out, << >>),
                           c)]
    IN  /\ frame # Free
        /\ frame.sub # PyNone
        /\ Resume(StorageHandler_handle_message(AgentName[StorageOf[o]],
                      actions[StorageOf[o]], frame.sub, tasks, fault))
        /\ UNCHANGED <<lock, status, running, agents, actions,
                       pc, started, last, registered>>

\* The handler of chain c has returned: the call returns to its client.
ChainReturn(c) ==
    /\ inflight[c] # Free
    /\ inflight[c].sub = PyNone
    /\ inflight' = [inflight EXCEPT ![c] = Free]
    /\ UNCHANGED <<lock, status, running, agents, actions, tasks,
                   pc, started, last, registered>>

Submit ==
    \E c \in Chains, req \in ChainRequests, cid \in ChainCorrelationIds :
        ChainSubmit(c, req, cid)

Deliver == \E c \in Chains, fault \in ChainFaults : ChainDeliver(c, fault)

ReturnChain == \E c \in Chains : ChainReturn(c)

NextConc ==
    \/ Submit
    \/ Deliver
    \/ ReturnChain

SpecConc == Init /\ [][NextConc]_vars

----------------------------------------------------------------------------
(* SpecLock: request chains at the in-memory store and at the console.     *)
(* A chain is one handle_message call that the orchestrator forwards to    *)
(* the storage agent or to the UI agent.  Every operation of               *)
(* InMemoryBackend runs its body under `async with self._lock`: a chain    *)
(* stands before the lock, inside the critical section, or past it, and    *)
(* the steps of different chains interleave.  A handler of the UI agent    *)
(* calls the console adapter synchronously: while Prompt.ask waits for a   *)
(* line, the thread of the event loop is inside that call and no           *)
(* coroutine runs.  A frame holds the message of the chain, the agent it   *)
(* was forwarded to, where the coroutine stands and its outcome.           *)

Coroutine(message, agent, at, out) ==
    [message |-> message, agent |-> agent, stage |-> 0, sub |-> PyNone,
     hops |-> << >>, out |-> out, at |-> at]

\* The frame of a chain with the place its coroutine stands at.
Placed(frame, at) ==
    [message |-> frame.message, agent |-> frame.agent, stage |-> frame.stage,
     sub |-> frame.sub, hops |-> frame.hops, out |-> frame.out, at |-> at]

At(c, place) == inflight[c] # Free /\ inflight[c].at = place

\* The thread is inside a blocking read of the console.
AtPrompt == \E c \in Chains : At(c, "prompt")

\* `async with self._lock` enters when the lock is free, whatever else waits.
Lock_acquire_Unguarded(held) == TRUE

\* `async with self._lock` enters when the lock is free.
Lock_acquire(held) == ~held

\* A variant of __aexit__ that leaves the lock as it is.
Lock_release_Kept(held) == held

\* `async with self._lock` leaves the lock free, on return and on a raise.
Lock_release(held) == FALSE

\* The handlers of the UI agent that read a line from the console.
ReadsConsole(registry, action) ==
    /\ HasAction(registry, action)
    /\ HandlerOf(registry, action) \in
           {"_handle_get_choice", "_handle_get_task_details",
            "_handle_get_update_details", "_handle_confirm", "_handle_select_task"}

\* The storage agent whose backend the chain forwarded to agent o reaches.
StoreAgent(o) == IF AgentClass[o] = "TaskManagerAgent" THEN StorageOf[o] ELSE o

\* The task_add chains that are created and have not drawn their id yet.
Reserved == {c \in Chains : At(c, "created") /\ inflight[c].message.action = task_add}

LockRequests ==
    {Req(a, [NoPayload EXCEPT !.task = d]) :
        a \in {storage_save, storage_update},
        d \in {PyNone, TaskDict(TaskId(1), <<"A">>, PENDING),
               TaskDict(TaskId(1), <<"A">>, COMPLETED)}}
    \cup {Req(a, [NoPayload EXCEPT !.task_id = Str(TaskId(1))]) :
            a \in {storage_get, storage_delete}}
    \cup {Req(a, NoPayload) :
            a \in {storage_get_all, storage_query, storage_clear, ui_get_choice}}

\* asyncio.gather(orchestrator.handle_message(m), ...): the coroutine of
\* chain c is created and waits for its first turn.
LockSubmit(c, req) ==
    LET RoutedTo(m, agent_name) ==
            /\ ~IsNone(agent_name)
            /\ HasAgent(agents, agent_name.v)
            /\ AgentClass[AgentNamed(agents, agent_name.v)] # "OrchestratorAgent"
            /\ inflight' = [inflight EXCEPT ![c] =
                   Coroutine(m, AgentNamed(agents, agent_name.v), "created", PyNone)]
        Sent(m) ==
            /\ ~m.raised
            /\ RoutedTo(m, get_route_for_action(m.action))
    IN  /\ pc = Idle /\ last = NoCall
        /\ ~AtPrompt
        /\ inflight[c] = Free
        /\ req.action = task_add =>
               Cardinality(UsedIds) + Cardinality(Reserved) < MaxTasks
        /\ Sent(AgentMessage(ChainRequestId(c), <<"test">>, <<"orchestrator">>,
                             req.action, req.payload, PyNone))
        /\ UNCHANGED <<lock, status, running, agents, actions, tasks,
                       pc, started, last, registered>>

\* The coroutine of chain c runs from its creation to the lock of the
\* backend, into the console read, or to its return when its handler
\* reaches neither.  A sub-message of the task agent is one the storage
\* agent answers from the backend.
LockRun(c) ==
    LET frame == inflight[c]
        o == frame.agent
        AtStore(r) ==
            IF r.calls = 0 THEN Coroutine(frame.message, o, "done", r.out)
            ELSE [Coroutine(frame.message, o, "acquire", PyNone)
                     EXCEPT !.sub = frame.message]
        AtConsole ==
            IF ReadsConsole(actions[o], frame.message.action)
            THEN Coroutine(frame.message, o, "prompt", PyNone)
            ELSE Coroutine(frame.message, o, "done",
                     UIController_handle_message(AgentName[o], actions[o],
                         frame.message, Console(<< >>)))
        AtTask(next) ==
            Placed(next, IF next.sub # PyNone THEN "acquire" ELSE "done")
        Stands(coroutine) == inflight' = [inflight EXCEPT ![c] = coroutine]
    IN  /\ At(c, "created")
        /\ ~AtPrompt
        /\ CASE AgentClass[o] = "StorageHandlerAgent" ->
                    \E r \in {StorageHandler_handle_message(AgentName[o], actions[o],
                                   frame.message, tasks, PyNone)} :
                        Stands(AtStore(r))
             [] AgentClass[o] = "UIControllerAgent" -> Stands(AtConsole)
             [] AgentClass[o] = "TaskManagerAgent" ->
                    \E s \in {TaskManager_handle_message(AgentName[o], actions[o],
                                   frame.message, 0, PyNone,
                                   IF CanGenerate(UsedIds)
                                   THEN generate_task_id(UsedIds) ELSE << >>)} :
                        \E next \in {Advance(frame, s, c)} : Stands(AtTask(next))
        /\ UNCHANGED <<lock, status, running, agents, actions, tasks,
                       pc, started, last, registered>>

\* `async with self._lock`: __aenter__.
LockEnter(c) ==
    /\ At(c, "acquire")
    /\ ~AtPrompt
    /\ Lock_acquire(lock)
    /\ lock' = TRUE
    /\ inflight' = [inflight EXCEPT ![c].at = "inside"]
    /\ UNCHANGED <<status, running, agents, actions, tasks,
                   pc, started, last, registered>>

\* The body of the backend operation, and what the handlers make of its
\* result: the storage agent's its response, and the task agent's, resumed
\* with that response, its own response or its next sub-message.
LockBody(c, fault) ==
    LET frame == inflight[c]
        o == frame.agent
        Stands(coroutine) == inflight' = [inflight EXCEPT ![c] = coroutine]
    IN  /\ At(c, "inside")
        /\ ~AtPrompt
        /\ \E r \in {StorageHandler_handle_message(AgentName[StoreAgent(o)],
                         actions[StoreAgent(o)], frame.sub, tasks, fault)} :
               /\ tasks' = r.tasks
               /\ IF AgentClass[o] = "TaskManagerAgent"
                  THEN \E s \in {TaskManager_handle_message(AgentName[o], actions[o],
                                      frame.message, frame.stage, r.out, << >>)} :
                           \E next \in {Advance(frame, s, c)} :
                               Stands(Placed(next, "release"))
                  ELSE Stands([frame EXCEPT !.sub = PyNone, !.out = r.out,
                                            !.at = "release"])
        /\ UNCHANGED <<lock, status, running, agents, actions,
                       pc, started, last, registered>>

\* `async with self._lock`: __aexit__; a task agent that has sent its next
\* sub-message stands before the lock again.
LockExit(c) ==
    /\ At(c, "release")
    /\ ~AtPrompt
    /\ lock' = Lock_release(lock)
    /\ inflight' = [inflight EXCEPT ![c].at =
           IF inflight[c].sub # PyNone THEN "acquire" ELSE "done"]
    /\ UNCHANGED <<status, running, agents, actions, tasks,
                   pc, started, last, registered>>

\* The user enters a line (or the console fails): Prompt.ask returns and
\* the handler of chain c runs to its return.
PromptAnswer(c, device) ==
    LET frame == inflight[c]
        o == frame.agent
    IN  /\ At(c, "prompt")
        /\ inflight' = [inflight EXCEPT ![c] =
               Coroutine(frame.message, o, "done",
                   UIController_handle_message(AgentName[o], actions[o],
                       frame.message, device))]
        /\ UNCHANGED <<lock, status, running, agents, actions, tasks,
                       pc, started, last, registered>>

\* handle_message of chain c returns its response to the client.
LockReturn(c) ==
    /\ At(c, "done")
    /\ ~AtPrompt
    /\ inflight' = [inflight EXCEPT ![c] = Free]
    /\ UNCHANGED <<lock, status, running, agents, actions, tasks,
                   pc, started, last, registered>>

SubmitLock == \E c \in Chains, req \in LockRequests : LockSubmit(c, req)

RunLock == \E c \in Chains : LockRun(c)

EnterLock == \E c \in Chains : LockEnter(c)

BodyLock == \E c \in Chains, fault \in ChainFaults : LockBody(c, fault)

ExitLock == \E c \in Chains : LockExit(c)

AnswerPrompt ==
    \E c \in Chains, device \in {Console(<<"1">>), BrokenConsole} : PromptAnswer(c, device)

ReturnLock == \E c \in Chains : LockReturn(c)

NextLock ==
    \/ SubmitLock
    \/ RunLock
    \/ EnterLock
    \/ BodyLock
    \/ ExitLock
    \/ AnswerPrompt
    \/ ReturnLock

SpecLock == Init /\ [][NextLock]_vars

\* The event loop gives every coroutine that can run its turn, and
\* asyncio.Lock wakes its waiters first come, first served; nothing makes
\* the user answer a prompt.
SpecLockFair ==
    /\ SpecLock
    /\ \A c \in Chains :
           /\ SF_vars(LockRun(c))
           /\ SF_vars(LockEnter(c))
           /\ SF_vars(\E fault \in {PyNone} : LockBody(c, fault))
           /\ SF_vars(LockExit(c))
           /\ SF_vars(LockReturn(c))

----------------------------------------------------------------------------

(* SpecChains: task chains and storage chains together at the store.  A    *)
(* task chain takes the lock once for each sub-message the storage agent   *)
(* answers from the backend, a storage chain once.  SpecChainsFair adds    *)
(* the scheduling: the event loop gives every coroutine that can run its   *)
(* turn, and asyncio.Lock wakes its waiters first come, first served, so a *)
(* chain that waits at the lock while the lock is freed again and again    *)
(* gets it.                                                                *)

ChainsRequests ==
    {Req(task_add, [NoPayload EXCEPT !.title = Str(<<"A">>)]),
     Req(task_complete, [NoPayload EXCEPT !.task_id = Str(TaskId(1))]),
     Req(task_delete, [NoPayload EXCEPT !.task_id = Str(TaskId(1))]),
     Req(storage_get_all, NoPayload),
     Req(storage_clear, NoPayload)}

SubmitChains == \E c \in Chains, req \in ChainsRequests : LockSubmit(c, req)

NextChains ==
    \/ SubmitChains
    \/ RunLock
    \/ EnterLock
    \/ BodyLock
    \/ ExitLock
    \/ ReturnLock

SpecChains == Init /\ [][NextChains]_vars

SpecChainsFair ==
    /\ SpecChains
    /\ \A c \in Chains :
           /\ WF_vars(LockRun(c))
           /\ SF_vars(LockEnter(c))
           /\ WF_vars(\E fault \in ChainFaults : LockBody(c, fault))
           /\ WF_vars(LockExit(c))
           /\ WF_vars(LockReturn(c))

----------------------------------------------------------------------------

(* Properties.  `last` holds the handle_message call that is returning:    *)
(* `Called` says one is.                                                   *)

Called == last # NoCall

\* The envelope invariant of a returned response.
WellFormed(r) ==
    /\ ~r.raised
    /\ r.request_id # << >> /\ r.sender # << >>
    /\ r.status \in {"success", "error"}
    /\ r.status = "success" => IsNone(r.error)
    /\ r.status = "error" => ~IsNone(r.error) /\ IsNone(r.result)

\* The prefix table as the specification declares it, written out.
DeclaredPrefixes ==
    << <<"t", "a", "s", "k", "_">>, <<"s", "t", "o", "r", "a", "g", "e", "_">>,
       <<"u", "i", "_">>, <<"s", "y", "s", "t", "e", "m", "_">> >>

DeclaredTargets ==
    << <<"task_manager">>, <<"storage_handler">>, <<"ui_controller">>, <<"orchestrator">> >>

LiteralPrefix(p, a) == Len(p) <= Len(a) /\ SubSeq(a, 1, Len(p)) = p

Matching(a) ==
    {i \in 1..Len(DeclaredPrefixes) : LiteralPrefix(DeclaredPrefixes[i], a)}

FirstMatching(a) == CHOOSE i \in Matching(a) : \A j \in Matching(a) : i <= j

Range(seq) == {seq[i] : i \in 1..Len(seq)}

\* C1: for every message that can be constructed, including one whose
\* request_id the caller supplies, OrchestratorAgent.handle_message returns a
\* well-formed response and no fault escapes, in every orchestrator state.
C1_HandleMessageTotal == Called => WellFormed(last.out)

\* C2: every response that is constructed has no error when its status is
\* success, and has a present, non-empty error and no result when its status
\* is error; any other combination fails at construction.
C2_EnvelopeInvariant ==
    (Called /\ ~last.out.raised) =>
        /\ last.out.status = "success" => IsNone(last.out.error)
        /\ last.out.status = "error" =>
               Truthy(last.out.error) /\ IsNone(last.out.result)

\* C3: the route chosen for an action is the agent name bound to the first
\* entry of the prefix table (task_, storage_, ui_, system_) that is a
\* literal prefix of the action, and no route when there is none, whatever
\* calls came before, whichever agents are registered and whatever the
\* lifecycle state.
C3_RouteIsFirstMatch ==
    Called =>
        last.route = IF Matching(last.message.action) = {} THEN PyNone
                     ELSE Str(DeclaredTargets[FirstMatching(last.message.action)])

C3_Witness ==
    /\ Called
    /\ last.message.action = my_task_add
    /\ last.route = PyNone
    /\ Len(agents) = 2
    /\ status[Orchestrator] = "active"

\* C4: for every action that starts with none of the prefixes, handle_message
\* returns an error response that mentions the action and every known
\* prefix, and no agent is invoked.
C4_UnknownActionAnswered ==
    (Called /\ Matching(last.message.action) = {}) =>
        /\ WellFormed(last.out)
        /\ last.out.status = "error"
        /\ Mentions(last.out.error.v, last.message.action)
        /\ \A i \in 1..Len(DeclaredPrefixes) :
               Mentions(last.out.error.v, DeclaredPrefixes[i])
        /\ last.target = PyNone /\ last.hops = << >> /\ last.calls = 0

\* The backend raised at one of the calls the agent made.
BackendFaulted == last.fault.at # 0 /\ last.calls >= last.fault.at

\* The UI actions whose handler reaches the console on every payload.
ConsoleActions ==
    {ui_display_menu, ui_get_choice, ui_get_task_details, ui_get_update_details,
     ui_display_message, ui_confirm, ui_welcome, ui_goodbye}

\* The console raised at a call the UI agent's handler made.
DeviceFaulted ==
    /\ last.target = Str(<<"ui_agent">>)
    /\ last.message.action \in ConsoleActions
    /\ ~IsNone(last.device.fault)

\* C5: when the backend or the device raises while the task, storage or UI
\* agent handles message m, the agent's handle_message returns an error
\* response carrying the failure text with request_id = m.request_id, and
\* the fault does not propagate.
C5_FaultContained ==
    (Called /\ last.target # PyNone /\ (BackendFaulted \/ DeviceFaulted)) =>
        /\ WellFormed(last.reply)
        /\ last.reply.status = "error"
        /\ last.reply.request_id = last.message.request_id
        /\ Mentions(last.reply.error.v,
                    IF BackendFaulted THEN last.fault.exc.text
                    ELSE last.device.fault.text)

\* C6: every response an agent's handle_message returns has the request_id
\* of the message handled; each sub-request of the task agent has a
\* request_id of its own, the storage agent's reply carries that id, and
\* the response returned to the caller carries the caller's.
C6_ResponsesCarryRequestId ==
    Called =>
        /\ ~last.out.raised => last.out.request_id = last.message.request_id
        /\ (last.target # PyNone /\ ~last.reply.raised) =>
               last.reply.request_id = last.delivered.request_id
        /\ \A k \in 1..Len(last.hops) :
               /\ last.hops[k].message.request_id # last.message.request_id
               /\ \A j \in 1..Len(last.hops) :
                      j # k => last.hops[j].message.request_id
                                   # last.hops[k].message.request_id
               /\ ~last.hops[k].reply.raised =>
                      last.hops[k].reply.request_id = last.hops[k].message.request_id

C6_Witness ==
    /\ Called
    /\ last.message.action = task_complete
    /\ Len(last.hops) = 2
    /\ ~last.out.raised
    /\ last.out.status = "success"

\* C7: every sub-message the task agent sends to the storage agent while
\* handling m carries m.correlation_id, at each hop, also while another
\* chain is in flight.
C7_CorrelationPropagated ==
    \A c \in Chains :
        inflight[c] # Free =>
            \A k \in 1..Len(inflight[c].hops) :
                inflight[c].hops[k].correlation_id
                    = inflight[c].message.correlation_id

C7_Witness ==
    /\ inflight[1] # Free /\ inflight[2] # Free
    /\ inflight[1].message.correlation_id # inflight[2].message.correlation_id
    /\ Len(inflight[1].hops) = 2
    /\ Len(inflight[2].hops) >= 1
    /\ inflight[2].sub # PyNone

\* C8: when the agent resolved for the action is registered, the message
\* it receives is the submitted one, field for field, and the response the
\* caller gets is the one the agent returned.
C8_ForwardedUnmodified ==
    (Called /\ last.target # PyNone) =>
        /\ last.delivered = last.message
        /\ ~last.reply.raised => last.out = last.reply

C8_Witness ==
    /\ Called
    /\ last.target = Str(<<"task_agent">>)
    /\ last.message.action = task_add
    /\ ~last.out.raised
    /\ last.out.status = "success"

\* C9: every agent is created inactive; start() leaves it active and stop()
\* leaves it inactive, whatever its status was.
C9_StartStopSetStatus ==
    /\ \A o \in AgentObjects \cup {Orchestrator} : status[o] = "inactive"
    /\ [][\A o \in AgentObjects \cup {Orchestrator} :
              /\ AgentStart(o) => status'[o] = "active"
              /\ AgentStop(o) => status'[o] = "inactive"]_vars

C9_Witness ==
    /\ agents = << >>
    /\ status["task_agent"] = "active"
    /\ status["twin_task_agent"] = "active"
    /\ status["storage_agent"] = "inactive"
    /\ status[Orchestrator] = "inactive"

\* The names of the agents given to register_agent, in the order in which
\* each name was first given.
RECURSIVE FirstNames(_)
FirstNames(objs) ==
    IF objs = << >> THEN << >>
    ELSE LET Seen(rest, name) ==
                 IF name \in Range(rest) THEN rest ELSE Append(rest, name)
         IN  Seen(FirstNames(SubSeq(objs, 1, Len(objs) - 1)),
                  AgentName[objs[Len(objs)]])

\* The agent objects the table holds.
InTable == {agents[i].agent : i \in 1..Len(agents)}

\* C10 as stated: when start() completes the orchestrator is active and
\* running and every registered agent is active; the agents are started in
\* registration order, so that an agent registered earlier is active by the
\* time one registered after it is started.
C10_StartsRegisteredInOrder ==
    /\ [][(pc.op = "start" /\ pc'.op = "idle") =>
              /\ status'[Orchestrator] = "active"
              /\ running'
              /\ \A o \in InTable' : status'[o] = "active"]_vars
    /\ [](pc.op = "start" =>
              \A i, j \in 1..Len(registered) :
                  (/\ i < j
                   /\ registered[i] \in InTable
                   /\ registered[j] \in InTable
                   /\ registered[j] \in Range(started)) =>
                      status[registered[i]] = "active")

\* C10, amended: when start() completes the orchestrator is active and
\* running and every agent the table holds is active; the agents are
\* started one at a time in table order, which is the order in which their
\* names were first registered (an agent registered under a name the table
\* already has takes that entry's place).
C10_StartsTableInOrder ==
    /\ [][(pc.op = "start" /\ pc'.op = "idle") =>
              /\ status'[Orchestrator] = "active"
              /\ running'
              /\ \A i \in 1..Len(agents') : status'[agents'[i].agent] = "active"]_vars
    /\ [](pc.op = "start" =>
              started = [i \in 1..(pc.i - 1) |-> agents[i].agent])
    /\ []([i \in 1..Len(agents) |-> agents[i].name] = FirstNames(registered))

C10_Witness ==
    /\ pc.op = "start"
    /\ registered = <<"task_agent", "storage_agent", "twin_task_agent">>
    /\ agents = << [name |-> <<"task_manager">>, agent |-> "twin_task_agent"],
                   [name |-> <<"storage_handler">>, agent |-> "storage_agent"] >>
    /\ started = <<"twin_task_agent", "storage_agent">>

\* The agents the loop of a running stop() has passed.
PassedByStop == {agents[k].agent : k \in 1..(pc.i - 1)}

\* C11 as stated: stop() stops the registered agents in registration order
\* (an agent registered earlier is inactive by the time one registered
\* after it is stopped) and only then the orchestrator; when stop()
\* completes the orchestrator is inactive, running is false and every
\* registered agent is inactive.
C11_StopsRegisteredInOrder ==
    /\ [][(pc.op = "stop" /\ pc'.op = "idle") =>
              /\ status'[Orchestrator] = "inactive"
              /\ ~running'
              /\ \A o \in InTable' : status'[o] = "inactive"]_vars
    /\ [](pc.op = "stop" =>
              \A i, j \in 1..Len(registered) :
                  (/\ i < j
                   /\ registered[i] \in InTable
                   /\ registered[j] \in InTable
                   /\ registered[j] \in PassedByStop) =>
                      status[registered[i]] = "inactive")

\* C11, amended: stop() stops the agents the table holds one at a time in
\* table order, and only then the orchestrator: while stop() runs the
\* agents it has passed are inactive and the orchestrator's status is what
\* it was, changing only at the step after which every agent of the table
\* is inactive; when stop() completes the orchestrator is inactive, running
\* is false and every agent of the table is inactive.
C11_StopsTableThenItself ==
    /\ [][(pc.op = "stop" /\ pc'.op = "idle") =>
              /\ status'[Orchestrator] = "inactive"
              /\ ~running'
              /\ \A o \in InTable' : status'[o] = "inactive"]_vars
    /\ [](pc.op = "stop" =>
              /\ ~running
              /\ \A k \in 1..(pc.i - 1) : status[agents[k].agent] = "inactive")
    /\ [][(pc.op = "stop" /\ status'[Orchestrator] # status[Orchestrator]) =>
              \A o \in InTable : status[o] = "inactive"]_vars

C11_Witness ==
    /\ pc = [op |-> "stop", i |-> 2]
    /\ registered = <<"task_agent", "storage_agent", "twin_task_agent">>
    /\ status[Orchestrator] = "active"
    /\ status["twin_task_agent"] = "inactive"
    /\ status["storage_agent"] = "active"

\* A step in which handle_message handles a message with action a.
Handles(a) == last = NoCall /\ last' # NoCall /\ last'.message.action = a

\* C12: handling system_shutdown sets running to false and returns a
\* success response, and leaves the orchestrator's status, every agent's
\* status, the agent table and the task store as they were.
C12_ShutdownOnlyClearsRunning ==
    [][Handles(system_shutdown) =>
          /\ ~running'
          /\ WellFormed(last'.out)
          /\ last'.out.status = "success"
          /\ status' = status
          /\ agents' = agents
          /\ tasks' = tasks]_vars

\* C13: create_orchestrator registers a storage agent, a task agent wired
\* to it and a UI agent into a fresh orchestrator and returns it started:
\* on return the orchestrator and the three agents are active and running
\* is true.
C13_AssemblyReturnsStarted ==
    [][(agents = << >> /\ agents' # << >>) =>
          /\ agents' = Assembled
          /\ StorageOf["task_agent"] = "storage_agent"
          /\ status'[Orchestrator] = "active"
          /\ \A o \in InTable' : status'[o] = "active"
          /\ running']_vars

\* The steps that enter start() and stop() of the orchestrator.
EntersStart == pc.op = "idle" /\ pc'.op = "start"

EntersStop == pc.op = "idle" /\ pc'.op = "stop"

\* C14 as stated, step by step: running is false exactly when
\* system_shutdown has been handled since the last start(), so start()
\* sets it, handling system_shutdown clears it, and no other step (stop()
\* among them) changes it.
C14_RunningReflectsShutdown ==
    [][/\ EntersStart => running'
       /\ Handles(system_shutdown) => ~running'
       /\ ~(EntersStart \/ Handles(system_shutdown)) => running' = running]_vars

\* C14, amended: running is false when the orchestrator is constructed;
\* start() sets it, stop() and the handling of system_shutdown clear it,
\* and nothing else changes it: running is true exactly when start() has
\* been called and neither stop() nor system_shutdown has run since.
C14_RunningSinceStart ==
    /\ ~running
    /\ [][/\ EntersStart => running'
          /\ EntersStop => ~running'
          /\ Handles(system_shutdown) => ~running'
          /\ ~(EntersStart \/ EntersStop \/ Handles(system_shutdown)) =>
                 running' = running]_vars

C14_Witness ==
    /\ Called
    /\ last.message.action = system_shutdown
    /\ last.out.raised
    /\ ~running
    /\ status[Orchestrator] = "active"
    /\ status["task_agent"] = "active"

\* The descriptors of the agents the table holds carry each agent's name and
\* its status of the moment.
DescribesTable(infos) ==
    /\ Len(infos) = Len(agents)
    /\ \A i \in 1..Len(agents) :
           /\ infos[i].name = agents[i].name
           /\ infos[i].status = status[agents[i].agent]

\* C15: system_status returns a success response with the orchestrator's
\* name, version, status and running flag of the moment, one descriptor per
\* registered agent with that agent's status, and total_agents their number;
\* system_agents returns the same descriptors with count their number;
\* neither changes any state.
C15_StatusSnapshot ==
    [][/\ Handles(system_status) =>
              /\ WellFormed(last'.out)
              /\ last'.out.status = "success"
              /\ last'.out.result.orchestrator =
                     [name |-> <<"orchestrator">>,
                      version |-> <<"1", ".", "0", ".", "0">>,
                      status |-> status[Orchestrator], running |-> running]
              /\ DescribesTable(last'.out.result.agents)
              /\ last'.out.result.total_agents = Len(agents)
       /\ Handles(system_agents) =>
              /\ WellFormed(last'.out)
              /\ last'.out.status = "success"
              /\ DescribesTable(last'.out.result.agents)
              /\ last'.out.result.count = Len(agents)
       /\ (Handles(system_status) \/ Handles(system_agents)) =>
              UNCHANGED <<status, running, agents, actions, tasks>>]_vars

\* A step in which handle_message handles a message of the system_ namespace.
HandlesSystem ==
    /\ last = NoCall /\ last' # NoCall
    /\ LiteralPrefix(<<"s", "y", "s", "t", "e", "m", "_">>, last'.message.action)

\* The system actions the orchestrator's constructor registers.
SystemActions == {system_status, system_agents, system_shutdown}

\* C16: a system_ message is resolved in the orchestrator's own registry
\* and forwarded to no agent, not even to one registered under the name
\* orchestrator; a registered system action is answered by its handler, a
\* fault of the handler is returned as an error response marked as a system
\* error, and any other system_ action is answered by an error response
\* citing the unknown system action.
C16_SystemActionsHandledLocally ==
    [][HandlesSystem =>
          /\ last'.target = PyNone /\ last'.hops = << >> /\ last'.calls = 0
          /\ WellFormed(last'.out)
          /\ last'.out.sender = <<"orchestrator">>
          /\ last'.message.action \in SystemActions =>
                 \/ last'.out.status = "success"
                 \/ /\ last'.out.status = "error"
                    /\ StartsWith(last'.out.error.v, <<"System error: ">>)
          /\ last'.message.action \notin SystemActions =>
                 /\ last'.out.status = "error"
                 /\ Mentions(last'.out.error.v, <<"Unknown system action: ">>)
                 /\ Mentions(last'.out.error.v, last'.message.action)]_vars

\* A step in which handle_message handles a message whose prefix names an
\* agent that the table does not hold.
HandlesUnregistered ==
    /\ last = NoCall /\ last' # NoCall
    /\ Matching(last'.message.action) # {}
    /\ FirstMatching(last'.message.action) # 4
    /\ \A i \in 1..Len(agents) :
           agents[i].name # DeclaredTargets[FirstMatching(last'.message.action)]

\* C17: when the prefix of the action resolves to a name that is not in the
\* agent table, handle_message returns an error response stating that the
\* agent is not registered, calls no agent and changes no state.
C17_UnregisteredAgentAnswered ==
    [][HandlesUnregistered =>
          /\ WellFormed(last'.out)
          /\ last'.out.status = "error"
          /\ Mentions(last'.out.error.v, <<"Agent not registered: ">>)
          /\ Mentions(last'.out.error.v,
                      DeclaredTargets[FirstMatching(last'.message.action)])
          /\ last'.target = PyNone /\ last'.hops = << >> /\ last'.calls = 0
          /\ UNCHANGED <<status, running, agents, actions, tasks>>]_vars

\* The message of the returning call belongs to the storage_ namespace.
StorageMessage ==
    LiteralPrefix(<<"s", "t", "o", "r", "a", "g", "e", "_">>, last.message.action)

\* C18: nothing is retried: a storage_ message makes at most one backend
\* call, task_add sends at most one sub-message making at most one backend
\* call, also when the call fails; and the failure of the downstream call
\* yields one error response.
C18_NoRetries ==
    (Called /\ last.target # PyNone) =>
        /\ StorageMessage => last.calls <= 1 /\ last.hops = << >>
        /\ last.message.action = task_add =>
               Len(last.hops) <= 1 /\ last.calls <= Len(last.hops)
        /\ (BackendFaulted /\ (StorageMessage \/ last.message.action = task_add)) =>
               /\ last.calls = 1
               /\ WellFormed(last.out)
               /\ last.out.status = "error"

Listed(registry, a) ==
    {i \in 1..Len(registry) : supported_actions(registry)[i] = a}

\* C20: register_action(a, h) makes a appear in supported_actions at once;
\* registering a again replaces the handler: a is listed exactly once, the
\* handler kept for a is the one registered last, and it is the one that
\* handle_message runs for a.
C20_RegisterActionLastWins ==
    /\ [][\A r \in Registrations :
              RegisterAction(r[1], r[2], r[3]) =>
                  /\ Cardinality(Listed(actions'[r[1]], r[2])) = 1
                  /\ HandlerOf(actions'[r[1]], r[2]) = r[3]
                  /\ \A i \in 1..Len(actions[r[1]]) :
                         actions[r[1]][i].action # r[2] =>
                             actions'[r[1]][i] = actions[r[1]][i]]_vars
    /\ []((Called /\ last.message.action = task_add /\ last.hops # << >>) =>
              last.hops[1].message.action =
                  IF HandlerOf(actions["task_agent"], task_add) = "_handle_list"
                  THEN storage_query ELSE storage_save)

C20_Witness ==
    /\ Called
    /\ last.message.action = task_add
    /\ HandlerOf(actions["task_agent"], task_add) = "_handle_list"
    /\ ~last.out.raised
    /\ last.out.status = "success"
    /\ Len(actions["task_agent"]) = 6

\* The chains whose backend operation is inside the critical section.
InCriticalSection == {c \in Chains : At(c, "inside") \/ At(c, "release")}

\* C21: the in-memory store is used under exclusive access: no two backend
\* operations of concurrent chains are inside the critical section
\* together, and every change of the task map is made by a chain that is
\* inside it, while the lock is held.
C21_ExclusiveAccess ==
    [][/\ Cardinality(InCriticalSection) <= 1
       /\ tasks' # tasks =>
              /\ lock
              /\ \E c \in Chains : At(c, "inside") /\ InCriticalSection = {c}]_vars

\* A chain has changed the task map inside the critical section while
\* another chain stands before the lock.
C21_Witness ==
    \E c, d \in Chains :
        /\ At(c, "release") /\ At(d, "acquire")
        /\ lock
        /\ tasks # << >>

\* C22: a chain that waits without end for a downstream dependency (a
\* storage operation or a line from the console) blocks only itself: every
\* other request submitted to the orchestrator eventually has its response.
C22_OnlyThatChainBlocked ==
    \A c \in Chains :
        (inflight[c] # Free) ~> (At(c, "done") \/ At(c, "prompt"))

\* The message lacks a payload field its handler requires.
MissingField(m) ==
    \/ m.action = task_add /\ ~Truthy(m.payload.title)
    \/ /\ m.action \in {task_get, task_complete, task_delete, task_update}
       /\ ~Truthy(m.payload.task_id)
    \/ /\ m.action = task_update
       /\ IsNone(m.payload.title) /\ IsNone(m.payload.description)
    \/ m.action \in {storage_save, storage_update} /\ IsNone(m.payload.task)

\* A step in which handle_message handles a message that lacks a required
\* payload field.
HandlesIncomplete == last = NoCall /\ last' # NoCall /\ MissingField(last'.message)

\* C23: a request that lacks a required payload field (task_add without a
\* non-empty title; task_get, task_complete, task_delete or task_update
\* without a task_id; task_update with neither title nor description;
\* storage_save or storage_update without a task) is answered by an error
\* response, sends no storage message, runs no backend operation and
\* leaves the store unchanged.
C23_MissingFieldRejected ==
    [][HandlesIncomplete =>
          /\ WellFormed(last'.out)
          /\ last'.out.status = "error"
          /\ last'.hops = << >> /\ last'.calls = 0
          /\ tasks' = tasks]_vars

\* The message names a task id that the store ts does not hold.
UnknownId(m, ts) ==
    \/ /\ m.action \in {task_get, task_complete, task_update, task_delete, storage_get}
       /\ Truthy(m.payload.task_id)
       /\ m.payload.task_id.v \notin StoredIds(ts)
    \/ /\ m.action = storage_update
       /\ m.payload.task.t = "dict"
       /\ m.payload.task.id \notin StoredIds(ts)

\* A step in which handle_message handles a message naming a task id that
\* is not in the store.
HandlesUnknownId == last = NoCall /\ last' # NoCall /\ UnknownId(last'.message, tasks)

\* C24: task_get, task_complete, task_update and task_delete, and
\* storage_get and storage_update, on an id that is not in the store are
\* answered by an error response and leave the store unchanged;
\* storage_update does not create the record.
C24_UnknownIdRejected ==
    [][HandlesUnknownId =>
          /\ WellFormed(last'.out)
          /\ last'.out.status = "error"
          /\ tasks' = tasks]_vars

\* The response a client gets to request req when the store holds ts and
\* neither the backend nor the console fails.
Ask(req, ts) ==
    Orchestrator_handle_message(
        AgentMessage(<<"r2">>, <<"test">>, <<"orchestrator">>,
                     req.action, req.payload, PyNone),
        [status |-> status, agents |-> agents, actions |-> actions,
         running |-> running, tasks |-> ts, fault |-> NoFault,
         device |-> Console(<<"1">>), new_id |-> << >>]).out

AskGet(id, ts) == Ask(Req(task_get, [NoPayload EXCEPT !.task_id = Str(id)]), ts)

AskList(st, ts) == Ask(Req(task_list, [NoPayload EXCEPT !.status = st]), ts)

\* The response lists a task with the id, and dict is what it lists for it.
ListsAs(response, dict) ==
    /\ ~response.raised /\ response.status = "success"
    /\ \E i \in 1..Len(response.result.tasks) : response.result.tasks[i] = dict
    /\ \A i \in 1..Len(response.result.tasks) :
           response.result.tasks[i].id = dict.id => response.result.tasks[i] = dict

\* The response lists no task with the id.
ListsNot(response, id) ==
    /\ ~response.raised /\ response.status = "success"
    /\ \A i \in 1..Len(response.result.tasks) : response.result.tasks[i].id # id

\* A title that Task accepts.
ValidTitle(title) == Truthy(title) /\ Strip(title.v) # << >>

\* A step in which handle_message handles task_add with a valid title and
\* the backend works.
HandlesAdd ==
    /\ Handles(task_add)
    /\ ValidTitle(last'.message.payload.title)
    /\ last'.fault = NoFault

\* C25: task_add with a valid title returns a success response whose
\* result.task has that title, status pending and an id no stored task
\* had; afterwards the store holds the tasks it held and that one more,
\* which task_get returns for its id and task_list lists.
C25_AddCreatesTask ==
    [][HandlesAdd =>
          /\ WellFormed(last'.out)
          /\ last'.out.status = "success"
          /\ last'.out.result.task.title = last'.message.payload.title.v
          /\ last'.out.result.task.status = PENDING
          /\ last'.out.result.task.id \notin StoredIds(tasks)
          /\ Len(tasks') = Len(tasks) + 1
          /\ SubSeq(tasks', 1, Len(tasks)) = tasks
          /\ model_dump(tasks'[Len(tasks')]) = last'.out.result.task
          /\ AskGet(last'.out.result.task.id, tasks').status = "success"
          /\ AskGet(last'.out.result.task.id, tasks').result.task = last'.out.result.task
          /\ ListsAs(AskList(PyNone, tasks'), last'.out.result.task)
          /\ ListsAs(AskList(Str(PENDING), tasks'), last'.out.result.task)]_vars

\* The stored tasks of ts whose status is st (all of them when st is None),
\* in the order of the store, as task_list returns them.
StoredWith(st, ts) ==
    LET Wanted(task) == IsNone(st) \/ Str(task.status) = st
        sel == SelectSeq(ts, Wanted)
    IN  [i \in 1..Len(sel) |-> model_dump(sel[i])]

\* C26: task_list with status s returns exactly the stored tasks whose
\* status is s, and all stored tasks when no status is given; result.count
\* is the number of tasks returned, and the store is unchanged.
C26_ListFilters ==
    [][(Handles(task_list) /\ last'.fault = NoFault) =>
          /\ WellFormed(last'.out)
          /\ last'.out.status = "success"
          /\ last'.out.result.tasks = StoredWith(last'.message.payload.status, tasks)
          /\ last'.out.result.count = Len(last'.out.result.tasks)
          /\ tasks' = tasks]_vars

\* A step in which handle_message handles task_complete for a task that is
\* in the store, and the backend works.
HandlesComplete ==
    /\ Handles(task_complete)
    /\ Truthy(last'.message.payload.task_id)
    /\ HasId(tasks, last'.message.payload.task_id.v)
    /\ last'.fault = NoFault

\* C27: task_complete on a stored task returns a success response with
\* result.task.status completed and the id and title the task had;
\* afterwards task_list lists the task under completed and not under
\* pending, and every other stored task is as it was.
C27_CompleteMarksTask ==
    [][HandlesComplete =>
          LET id == last'.message.payload.task_id.v
              k == IndexOf(tasks, id)
          IN  /\ WellFormed(last'.out)
              /\ last'.out.status = "success"
              /\ last'.out.result.task.status = COMPLETED
              /\ last'.out.result.task.id = id
              /\ last'.out.result.task.title = tasks[k].title
              /\ ListsAs(AskList(Str(COMPLETED), tasks'), last'.out.result.task)
              /\ ListsNot(AskList(Str(PENDING), tasks'), id)
              /\ Len(tasks') = Len(tasks)
              /\ \A i \in 1..Len(tasks) : i # k => tasks'[i] = tasks[i]]_vars

\* The store ts without the task whose id is id.
Without(ts, id) ==
    LET Other(task) == task.id # id
    IN  SelectSeq(ts, Other)

\* A step in which handle_message handles action a for a task id, and the
\* backend works.
HandlesDelete(a) ==
    /\ Handles(a)
    /\ Truthy(last'.message.payload.task_id)
    /\ last'.fault = NoFault

\* C28: storage_delete returns success with deleted = true exactly when the
\* id was in the store, and then removes that task and no other; for an
\* unknown id it returns success with deleted = false and leaves the store
\* unchanged.  task_delete returns success with deleted = true for a
\* stored id, after which task_get and task_list no longer have the task,
\* and an error response for an unknown id.
C28_DeleteReportsPresence ==
    [][LET id == last'.message.payload.task_id.v
       IN  /\ HandlesDelete(storage_delete) =>
                  /\ WellFormed(last'.out)
                  /\ last'.out.status = "success"
                  /\ last'.out.result.deleted = HasId(tasks, id)
                  /\ tasks' = Without(tasks, id)
                  /\ ~HasId(tasks, id) => tasks' = tasks
           /\ (HandlesDelete(task_delete) /\ HasId(tasks, id)) =>
                  /\ WellFormed(last'.out)
                  /\ last'.out.status = "success"
                  /\ last'.out.result.deleted = TRUE
                  /\ tasks' = Without(tasks, id)
                  /\ AskGet(id, tasks').status = "error"
                  /\ ListsNot(AskList(PyNone, tasks'), id)
           /\ (HandlesDelete(task_delete) /\ ~HasId(tasks, id)) =>
                  /\ WellFormed(last'.out)
                  /\ last'.out.status = "error"
                  /\ tasks' = tasks]_vars

\* s is empty or consists of whitespace only.
Blank(s) == \A i \in 1..Len(s) : s[i] = " "

\* t is s without its leading and trailing whitespace.
IsTrimOf(t, s) ==
    /\ t # << >> /\ Head(t) # " " /\ t[Len(t)] # " "
    /\ \E i, j \in 1..Len(s) :
           /\ i <= j /\ t = SubSeq(s, i, j)
           /\ \A k \in 1..Len(s) : (k < i \/ k > j) => s[k] = " "

\* C29: constructing a message whose sender, recipient or action is empty
\* or whitespace-only fails with a validation error and yields no message;
\* every message that is constructed holds the three fields trimmed and
\* non-empty.
C29_MessageFieldsValidated ==
    Called =>
        /\ (Blank(last.given.sender) \/ Blank(last.given.recipient)
              \/ Blank(last.given.action)) =>
               last.out.raised /\ last.out.exc.cls = "pydantic.ValidationError"
        /\ ~last.out.raised =>
               /\ IsTrimOf(last.out.sender, last.given.sender)
               /\ IsTrimOf(last.out.recipient, last.given.recipient)
               /\ IsTrimOf(last.out.action, last.given.action)

\* A message was constructed from a sender with leading and a recipient
\* with trailing whitespace.
C29_Witness ==
    /\ Called
    /\ last.given = [sender |-> <<" ", "a">>, recipient |-> <<"a", " ">>,
                     action |-> <<"a", " ", "b">>]
    /\ ~last.out.raised
    /\ last.out.sender = <<"a">> /\ last.out.recipient = <<"a">>
    /\ last.out.action = <<"a", " ", "b">>

\* A step in which handle_message forwards a message to an agent whose
\* registry does not hold the action.
HandlesUnknownOfTarget ==
    /\ last = NoCall /\ last' # NoCall
    /\ last'.target # PyNone
    /\ ~HasAction(actions[last'.target.v[1]], last'.message.action)

\* C30: the target agent selects the handler by the exact action name: a
\* message whose action has a routed prefix but is not a registered action
\* of the target is answered by an error response naming the unknown
\* action, runs no handler and leaves the store unchanged.
C30_UnknownActionOfTarget ==
    [][HandlesUnknownOfTarget =>
          /\ WellFormed(last'.out)
          /\ last'.out.status = "error"
          /\ Mentions(last'.out.error.v, last'.message.action)
          /\ last'.out.sender = AgentName[last'.target.v[1]]
          /\ last'.hops = << >> /\ last'.calls = 0
          /\ tasks' = tasks]_vars

AskClear(ts) == Ask(Req(storage_clear, NoPayload), ts)

\* C31: clear, and the storage_clear action, return the number of tasks
\* that were in the store and leave the store empty; a clear repeated at
\* once returns 0 and the store stays empty.
C31_ClearCountsAndEmpties ==
    [][/\ InMemoryBackend_clear(tasks).value = Len(tasks)
       /\ InMemoryBackend_clear(tasks).tasks = << >>
       /\ InMemoryBackend_clear(InMemoryBackend_clear(tasks).tasks).value = 0
       /\ InMemoryBackend_clear(InMemoryBackend_clear(tasks).tasks).tasks = << >>
       /\ (Handles(storage_clear) /\ last'.fault = NoFault) =>
              /\ WellFormed(last'.out)
              /\ last'.out.status = "success"
              /\ last'.out.result.cleared = Len(tasks)
              /\ tasks' = << >>
              /\ AskClear(tasks').status = "success"
              /\ AskClear(tasks').result.cleared = 0]_vars

\* Chain c is a request with action a for task id.
ChainOn(c, a, id) ==
    /\ inflight[c] # Free
    /\ inflight[c].message.action = a
    /\ inflight[c].message.payload.task_id = Str(id)

\* Every task_complete for task id that was submitted has made its
\* response: none is waiting for the storage agent.
CompleteAnswered(id) ==
    \A c \in Chains : ChainOn(c, task_complete, id) => inflight[c].sub = PyNone

AwaitsUpdate(c) ==
    /\ inflight[c] # Free
    /\ inflight[c].message.action \in {task_complete, task_update}
    /\ inflight[c].sub # PyNone
    /\ inflight[c].sub.action = storage_update

\* C33: a deleted task is not brought back by a concurrent
\* read-modify-write: when the task is removed between the storage_get and
\* the storage_update of a task_complete or task_update on it, that
\* request is answered by an error response and the task stays absent.
C33_DeletedStaysDeleted ==
    [][\A c \in Chains :
          (/\ AwaitsUpdate(c)
           /\ ~HasId(tasks, inflight[c].message.payload.task_id.v)
           /\ inflight'[c] # inflight[c]) =>
              /\ inflight'[c].sub = PyNone
              /\ WellFormed(inflight'[c].out)
              /\ inflight'[c].out.status = "error"
              /\ ~HasId(tasks', inflight[c].message.payload.task_id.v)]_vars

\* A task_update that had read its task was answered by an error after a
\* task_delete removed the task, and the store is empty.
C33_Witness ==
    \E c \in Chains :
        /\ inflight[c] # Free
        /\ inflight[c].message.action = task_update
        /\ inflight[c].sub = PyNone
        /\ Len(inflight[c].hops) = 2
        /\ ~inflight[c].out.raised
        /\ inflight[c].out.status = "error"
        /\ Mentions(inflight[c].out.error.v, <<"Task not found: ">>)
        /\ tasks = << >>

HandledWhenStarted ==
    Orchestrator_handle_message(last'.message,
        [status |-> [o \in DOMAIN status |-> "active"], agents |-> agents,
         actions |-> actions, running |-> TRUE, tasks |-> tasks,
         fault |-> last'.fault, device |-> last'.device,
         new_id |-> IF CanGenerate(UsedIds) THEN generate_task_id(UsedIds) ELSE << >>])

\* A step in which handle_message handles a message whose route is not the
\* orchestrator itself.
HandlesForAgent ==
    /\ last = NoCall /\ last' # NoCall
    /\ last'.route # Str(AgentName[Orchestrator])

\* C35: whatever the status of the orchestrator and of its agents and
\* whatever the running flag, handle_message chooses the route it chooses
\* when everything is started, and for a message not routed to the
\* orchestrator itself the agent called, the response, the sub-messages
\* sent and the store left behind are those of the started system; the
\* running flag is left as it was.  A task_add with a valid title and a
\* request id is answered with success in every lifecycle state.
C35_LifecycleIndependent ==
    [][/\ (last = NoCall /\ last' # NoCall) =>
              HandledWhenStarted.route = last'.route
       /\ HandlesForAgent =>
              /\ HandledWhenStarted.target = last'.target
              /\ HandledWhenStarted.out = last'.out
              /\ HandledWhenStarted.hops = last'.hops
              /\ HandledWhenStarted.tasks = tasks'
              /\ running' = running
       /\ (HandlesAdd /\ last'.message.request_id # << >>) =>
              /\ last'.out.status = "success"
              /\ Len(tasks') = Len(tasks) + 1]_vars

\* A task_add answered with success after system_shutdown: the
\* orchestrator is active and no longer running.
C35_Witness ==
    /\ last # NoCall
    /\ last.message.action = task_add
    /\ ~last.out.raised /\ last.out.status = "success"
    /\ ~running
    /\ status[Orchestrator] = "active"

----------------------------------------------------------------------------
(* SpecTasks: the assembled orchestrator handling any sequence of          *)
(* task_add, task_complete, task_update and task_delete.                   *)

TasksCalls ==
    {Call(r, f, Console(<<"1">>)) :
        r \in {q \in TaskRequests :
                 q.action \in {task_add, task_complete, task_update, task_delete}},
        f \in Faults}

HandleTasks ==
    \E c \in TasksCalls, rid \in RequestIds, cid \in CorrelationIds :
        HandleMessage(c, rid, cid)

NextTasks ==
    \/ HandleTasks
    \/ Returned_

SpecTasks == Init /\ [][NextTasks]_vars

\* The task stored under the id, in a store that holds one.
StoredAs(ts, id) == ts[IndexOf(ts, id)]

\* C36: every stored task has status completed exactly when its
\* completed_at is set; the task a task_add stores is pending with no
\* completed_at; a task_update leaves the ids of the store, and the status
\* and completed_at of every stored task, as they were.
C36_StatusMatchesCompletedAt ==
    /\ [](\A i \in 1..Len(tasks) :
              tasks[i].status = COMPLETED <=> ~IsNone(tasks[i].completed_at))
    /\ [][(Handles(task_add) /\ tasks' # tasks) =>
              /\ Len(tasks') = Len(tasks) + 1
              /\ tasks'[Len(tasks')].status = PENDING
              /\ IsNone(tasks'[Len(tasks')].completed_at)]_vars
    /\ [][Handles(task_update) =>
              /\ Len(tasks') = Len(tasks)
              /\ \A i \in 1..Len(tasks) :
                    /\ tasks'[i].id = tasks[i].id
                    /\ tasks'[i].status = tasks[i].status
                    /\ tasks'[i].completed_at = tasks[i].completed_at]_vars

\* A task_update has just changed the title of a completed task, which is
\* still completed and stamped.
C36_Witness ==
    /\ last # NoCall
    /\ last.message.action = task_update
    /\ ~last.out.raised /\ last.out.status = "success"
    /\ \E i \in 1..Len(tasks) :
          /\ Str(tasks[i].id) = last.message.payload.task_id
          /\ tasks[i].title = <<"B">>
          /\ tasks[i].status = COMPLETED
          /\ tasks[i].completed_at = NowStamp

----------------------------------------------------------------------------
(* SpecBackend: the operations of InMemoryBackend called one after another *)
(* on the store, each from taking the lock to releasing it.                *)

\* The Task objects a caller saves: every id of TaskIds under two titles,
\* with and without a description, pending and completed.
BackendTasks ==
    {Task([t |-> "dict", id |-> id, title |-> ti, description |-> de,
           status |-> st,
           completed_at |-> IF st = COMPLETED THEN NowStamp ELSE PyNone]) :
        id \in TaskIds, ti \in {<<"A">>, <<"B">>},
        de \in {PyNone, Str(<<"d">>)}, st \in {PENDING, COMPLETED}}

\* One backend operation, from `async with self._lock` to its return.
BackendOperation(op, arg, r) ==
    /\ pc = Idle /\ last = NoCall
    /\ Lock_acquire(lock)
    /\ tasks' = r.tasks
    /\ last' = [backend |-> op, arg |-> arg, raised |-> r.raised,
                value |-> IF r.raised THEN PyNone ELSE r.value]
    /\ UNCHANGED <<lock, status, running, agents, actions, pc,
                   started, inflight, registered>>

BackendSave == \E task \in BackendTasks :
    BackendOperation("save", task, InMemoryBackend_save(tasks, task))

BackendGet == \E id \in TaskIds :
    BackendOperation("get", id, InMemoryBackend_get(tasks, id))

BackendUpdate == \E task \in BackendTasks :
    BackendOperation("update", task, InMemoryBackend_update(tasks, task))

BackendDelete == \E id \in TaskIds :
    BackendOperation("delete", id, InMemoryBackend_delete(tasks, id))

BackendClear == BackendOperation("clear", PyNone, InMemoryBackend_clear(tasks))

NextBackend ==
    \/ BackendSave
    \/ BackendGet
    \/ BackendUpdate
    \/ BackendDelete
    \/ BackendClear
    \/ Returned_

SpecBackend == Init /\ [][NextBackend]_vars

\* A step in which the backend runs the operation.
Runs(op) == last = NoCall /\ last' # NoCall /\ last'.backend = op

\* What get returns for the id from the store.
GetOf(ts, id) == InMemoryBackend_get(ts, id).value

\* Every id but the given one is stored before as after, with its record.
OthersKept(id) ==
    \A other \in TaskIds \ {id} : GetOf(tasks', other) = GetOf(tasks, other)

\* C37: the store holds one record per id, and count is the number of ids
\* stored.  save of a task adds its id when it is new (count grows by one)
\* and replaces the record when it is stored already (count unchanged);
\* delete removes the id, clear removes all, update and get leave the ids
\* as they are.  After save, and after an update that finds the id, get of
\* the id returns the task just written; every operation leaves the
\* records of the other ids as they were, and get returns the stored
\* record or None and leaves the store as it was.
C37_SaveIsUpsert ==
    /\ [](InMemoryBackend_count(tasks) = Cardinality(StoredIds(tasks)))
    /\ [][Runs("save") =>
              /\ ~last'.raised /\ last'.value = last'.arg
              /\ StoredIds(tasks') = StoredIds(tasks) \cup {last'.arg.id}
              /\ InMemoryBackend_count(tasks') =
                     IF last'.arg.id \in StoredIds(tasks)
                     THEN InMemoryBackend_count(tasks)
                     ELSE InMemoryBackend_count(tasks) + 1
              /\ GetOf(tasks', last'.arg.id) = last'.arg
              /\ OthersKept(last'.arg.id)]_vars
    /\ [][Runs("update") =>
              /\ StoredIds(tasks') = StoredIds(tasks)
              /\ last'.raised <=> last'.arg.id \notin StoredIds(tasks)
              /\ ~last'.raised => GetOf(tasks', last'.arg.id) = last'.arg
              /\ last'.raised => tasks' = tasks
              /\ OthersKept(last'.arg.id)]_vars
    /\ [][Runs("delete") =>
              /\ StoredIds(tasks') = StoredIds(tasks) \ {last'.arg}
              /\ last'.value = (last'.arg \in StoredIds(tasks))
              /\ OthersKept(last'.arg)]_vars
    /\ [][Runs("clear") =>
              /\ StoredIds(tasks') = {}
              /\ InMemoryBackend_count(tasks') = 0
              /\ last'.value = InMemoryBackend_count(tasks)]_vars
    /\ [][Runs("get") =>
              /\ tasks' = tasks
              /\ last'.value = IF last'.arg \in StoredIds(tasks)
                               THEN StoredAs(tasks, last'.arg) ELSE PyNone]_vars

\* A save has just replaced the record of a stored id by a different one,
\* among two stored ids.
C37_Witness ==
    /\ last # NoCall
    /\ last.backend = "save"
    /\ InMemoryBackend_count(tasks) = 2
    /\ tasks[1] = last.arg
    /\ tasks[1].title = <<"B">>
    /\ tasks[1].status = COMPLETED

----------------------------------------------------------------------------
(* SpecApp: TodoApp._send_message (src/app.py) on the orchestrator of      *)
(* create_orchestrator.  pc.i is the number of _send_message frames on the *)
(* stack; `last` holds the call of the innermost frame.                    *)

\* The _send_message frames the interpreter allows before it raises
\* RecursionError (sys.getrecursionlimit() counts every Python frame).
RecursionLimit == 3

\* What the handlers of the menu pass to _send_message.
AppRequests ==
    {Req(task_add, [NoPayload EXCEPT !.title = Str(<<"A">>)]),
     Req(task_list, NoPayload),
     Req(ui_get_choice, NoPayload),
     Req(ui_display_menu, NoPayload),
     Req(ui_display_message,
         [NoPayload EXCEPT !.message = Str(<<"Task added">>), !.type = Str(<<"success">>)])}
    \cup {Req(a, [NoPayload EXCEPT !.task_id = Str(TaskId(1))]) :
            a \in {task_get, task_complete, task_delete}}

\* A console whose standard output is closed: every call of the adapter
\* raises.
ClosedConsole ==
    [BrokenConsole EXCEPT !.fault = Exc("ValueError", <<"I/O operation on closed file">>)]

\* The consoles the adapter writes to: one that works and one that is
\* closed.
AppConsoles == {Console(<<"1">>), ClosedConsole}

\* request_id of the message the i-th frame builds: AgentMessage's default.
AppRequestId(i) == <<"g", ToString(i)>>

\* The payload of the request that reports an error response.
ErrorReport(response) ==
    [NoPayload EXCEPT !.message = response.error, !.type = Str(<<"error">>)]

\* Lines 65-71: the frame builds its message and awaits handle_message.
TodoApp_send(frame, req, device, first) ==
    LET call == Call(req, NoFault, device)
        Awaited(m, r) ==
            /\ tasks' = r.tasks
            /\ running' = r.running
            /\ last' = [message |-> m, fault |-> call.fault, device |-> call.device,
                        out |-> r.out, route |-> r.route, target |-> r.target,
                        delivered |-> r.delivered, reply |-> r.reply,
                        hops |-> r.hops, calls |-> r.calls]
            /\ pc' = [op |-> "send", i |-> frame,
                      first |-> IF frame = 1 THEN r.out ELSE first,
                      ret |-> PyNone]
    IN  /\ req.action = task_add => CanGenerate(UsedIds)
        /\ \E m \in {AgentMessage(AppRequestId(frame), <<"app">>, <<"orchestrator">>,
                                  req.action, req.payload, PyNone)} :
              /\ ~m.raised
              /\ \E r \in {Orchestrator_handle_message(m, Env(call))} : Awaited(m, r)
        /\ UNCHANGED <<lock, status, agents, actions, started, inflight, registered>>

\* A handler of the menu calls _send_message.
AppSend(req, device) ==
    /\ pc = Idle /\ last = NoCall
    /\ TodoApp_send(1, req, device, PyNone)

\* Lines 73-78: the response is an error and the frame calls _send_message
\* with ui_display_message.
AppReport(device) ==
    /\ pc.op = "send"
    /\ ~last.out.raised /\ last.out.status = "error"
    /\ pc.i < RecursionLimit
    /\ TodoApp_send(pc.i + 1, Req(ui_display_message, ErrorReport(last.out)),
                    device, pc.first)

\* The call of line 75 exceeds the recursion limit, or handle_message
\* raised: the exception leaves every frame, none of which catches it.
AppRaise ==
    /\ pc.op = "send"
    /\ \/ last.out.raised
       \/ ~last.out.raised /\ last.out.status = "error" /\ pc.i = RecursionLimit
    /\ pc' = [pc EXCEPT !.op = "raised"]
    /\ UNCHANGED <<lock, status, running, agents, actions, tasks,
                   started, last, inflight, registered>>

\* Line 81, and line 79 in every frame above: the innermost frame returns
\* response.result, each caller returns None.
AppReturn ==
    /\ pc.op = "send"
    /\ ~last.out.raised /\ last.out.status = "success"
    /\ pc' = [pc EXCEPT !.op = "returned",
                        !.ret = IF pc.i = 1 THEN last.out.result ELSE PyNone]
    /\ UNCHANGED <<lock, status, running, agents, actions, tasks,
                   started, last, inflight, registered>>

\* The handler of the menu goes on.
AppResume ==
    /\ pc.op \in {"returned", "raised"}
    /\ pc' = Idle
    /\ last' = NoCall
    /\ UNCHANGED <<lock, status, running, agents, actions, tasks,
                   started, inflight, registered>>

SendApp == \E req \in AppRequests, device \in AppConsoles : AppSend(req, device)

ReportApp == \E device \in AppConsoles : AppReport(device)

NextApp ==
    \/ SendApp
    \/ ReportApp
    \/ AppRaise
    \/ AppReturn
    \/ AppResume

SpecApp == Init /\ [][NextApp]_vars

\* The event loop runs the coroutine of _send_message to its end.
SpecAppFair ==
    /\ SpecApp
    /\ WF_vars(ReportApp)
    /\ WF_vars(AppRaise)
    /\ WF_vars(AppReturn)
    /\ WF_vars(AppResume)

\* C38: every call of _send_message returns; it returns the result of a
\* success response, and on an error response it sends one
\* ui_display_message request and returns None, whatever that request is
\* answered.
C38_SendMessageTerminates ==
    /\ [](pc.op = "send" => pc.i <= 2)
    /\ [](pc.op # "raised")
    /\ [](pc.op = "returned" =>
              pc.ret = IF pc.first.status = "success"
                       THEN pc.first.result ELSE PyNone)
    /\ (pc.op = "send") ~> (pc.op = "returned")

=============================================================================
